---------------------------- MODULE Spec2Model ----------------------------
(***************************************************************************)
(* Model of src/visualize.py: the file resolution, loading, grouping and   *)
(* averaging that feed the plots, and main's sequencing of the plot        *)
(* functions.                                                              *)
(*                                                                         *)
(* A results tree is a function from the paths of the files that exist to  *)
(* their parsed content, plus the set of directories that exist.  A path   *)
(* is a record [dir, sub, stem, param, run]: the file is in <dir>, or in   *)
(* <dir>/size_<sub> when sub >= 0; its name is <stem>, then _<param> when  *)
(* param >= 0, then _run<run> when run > 0, then .json.  A document is a   *)
(* [kind, ...]: kind "bad" is a file json.load rejects, "list" a JSON      *)
(* array (its rows), "object" a JSON object (its members).  A JSON object  *)
(* (a Python dict) is a TLA+ record whose DOMAIN is its set of keys.       *)
(*                                                                         *)
(* Every function of the script is a pure function of the results tree; it *)
(* is an operator that returns [status, value, opened, ...]: status        *)
(* "raise" is an exception leaving the function, opened the sequence of    *)
(* the files it passed to open(), in order.                                *)
(*                                                                         *)
(* Numbers: tolerances and epsilons are integers in units of 1e-9 (1e-3 is *)
(* 1000000); np.mean of a list is the fraction [num, den] = [sum, length]  *)
(* (den = 0 is numpy's nan of an empty list); np.std is given by its       *)
(* square, the population variance, as a fraction.                         *)
(***************************************************************************)
EXTENDS Integers, Sequences, FiniteSets, TLC

VARIABLES
    pc,                \* position of the running function / of main
    fs,                \* the results tree the running function looks at
    out,               \* what the last function called returned
    graphs_generated,  \* main's counter
    errors,            \* main's "Erreur lors de ..." lines, by unit
    calls,             \* the plot functions main has called, in order
    plots              \* the units that saved at least one figure

vars == <<pc, fs, out, graphs_generated, errors, calls, plots>>

----------------------------------------------------------------------------
(* Bounds of the model *)

MaxRuns == 2    \* run files per pattern: <stem>_run1.json .. <stem>_run<MaxRuns>.json
MaxRows == 2    \* rows per JSON array

----------------------------------------------------------------------------
(* Sequences and arithmetic *)

RECURSIVE SumSeq(_)
SumSeq(xs) == IF xs = <<>> THEN 0 ELSE Head(xs) + SumSeq(Tail(xs))

RECURSIVE SumSqSeq(_)
SumSqSeq(xs) == IF xs = <<>> THEN 0 ELSE Head(xs) * Head(xs) + SumSqSeq(Tail(xs))

RECURSIVE Concat(_)
Concat(ss) == IF ss = <<>> THEN <<>> ELSE Head(ss) \o Concat(Tail(ss))

RECURSIVE SeqOfSet(_)
\* sorted(S) for a set of integers: ascending
SeqOfSet(S) ==
    IF S = {} THEN <<>>
    ELSE LET m == CHOOSE x \in S : \A y \in S : x <= y
         IN  <<m>> \o SeqOfSet(S \ {m})

Range(s) == {s[i] : i \in 1..Len(s)}

SeqsUpTo(S, n) == UNION {[1..k -> S] : k \in 0..n}

\* two fractions denote the same number (denominators > 0)
FracEq(a, b) == a.num * b.den = b.num * a.den

FracAdd(a, b) == [num |-> a.num * b.den + b.num * a.den, den |-> a.den * b.den]

\* np.mean(xs); den = 0 is nan (numpy warns and returns nan for an empty list)
np_mean(xs) == [num |-> SumSeq(xs), den |-> Len(xs)]

\* np.std(xs, ddof=1) squared: the sample variance; den = 0 is the nan numpy
\* returns for a single value
np_std_ddof1(xs) ==
    [num |-> Len(xs) * SumSqSeq(xs) - SumSeq(xs) * SumSeq(xs),
     den |-> Len(xs) * (Len(xs) - 1)]

\* np.std(xs) squared: the population variance (ddof = 0)
np_std(xs) ==
    [num |-> Len(xs) * SumSqSeq(xs) - SumSeq(xs) * SumSeq(xs),
     den |-> Len(xs) * Len(xs)]

----------------------------------------------------------------------------
(* Paths and documents *)

Path(d, s, r) == [dir |-> d, sub |-> -1, stem |-> s, param |-> -1, run |-> r]
ParamPath(d, s, x, r) == [dir |-> d, sub |-> -1, stem |-> s, param |-> x, run |-> r]
SizePath(d, n, s, r) == [dir |-> d, sub |-> n, stem |-> s, param |-> -1, run |-> r]

Dir(d) == [dir |-> d, sub |-> -1]
SizeDir(d, n) == [dir |-> d, sub |-> n]

BadDoc == [kind |-> "bad"]
ListDoc(rs) == [kind |-> "list", rows |-> rs]
ObjDoc(o) == [kind |-> "object", obj |-> o]

Exists(tree, p) == p \in DOMAIN tree.files

\* sorted(dir.glob("<name>_run*.json")): the run files of the file `base` that
\* exist, in name order
Glob(tree, base) ==
    LET idx == SeqOfSet({i \in 1..MaxRuns : Exists(tree, [base EXCEPT !.run = i])})
    IN  [k \in 1..Len(idx) |-> [base EXCEPT !.run = idx[k]]]

\* a loader that catches the error of json.load and returns an empty list
load_json_or_empty(tree, p) ==
    IF tree.files[p].kind = "bad"
    THEN [status |-> "ok", value |-> ListDoc(<<>>)]
    ELSE [status |-> "ok", value |-> tree.files[p]]

\* load_json: json.load raises on a file that is not valid JSON
load_json(tree, p) ==
    IF tree.files[p].kind = "bad"
    THEN [status |-> "raise", value |-> BadDoc]
    ELSE [status |-> "ok", value |-> tree.files[p]]

\* [load_json(f) for f in files]: stops at the first file that raises
RECURSIVE LoadAll(_, _)
LoadAll(tree, files) ==
    IF files = <<>> THEN [status |-> "ok", value |-> <<>>, opened |-> <<>>]
    ELSE LET h == load_json(tree, Head(files))
         IN  IF h.status = "raise"
             THEN [status |-> "raise", value |-> <<>>, opened |-> <<Head(files)>>]
             ELSE LET t == LoadAll(tree, Tail(files))
                  IN  [status |-> t.status,
                       value |-> IF t.status = "ok" THEN <<h.value>> \o t.value ELSE <<>>,
                       opened |-> <<Head(files)>> \o t.opened]

----------------------------------------------------------------------------
(* load_multiple_runs *)

RowFields == {"tolerance", "iterations", "executionTimeMs"}

\* what `for result in data: result['tolerance'] ...` does with one loaded
\* document: a row without one of the three keys raises KeyError; iterating a
\* non-empty object yields its keys, and indexing a key by a string raises
DocRaises(doc) ==
    IF doc.kind = "list"
    THEN \E i \in 1..Len(doc.rows) : ~(RowFields \subseteq DOMAIN doc.rows[i])
    ELSE DOMAIN doc.obj # {}

DocRows(doc) == IF doc.kind = "list" THEN doc.rows ELSE <<>>

\* the rows of a document without those followed by a row of the same
\* tolerance: what is left of the rows when each one overwrites, instead of
\* being appended to, what its tolerance holds for the file
LastPerTolerance(rows) ==
    LET idx == SeqOfSet({i \in 1..Len(rows) :
                            \A j \in (i + 1)..Len(rows) :
                                rows[j].tolerance # rows[i].tolerance})
    IN  [k \in 1..Len(idx) |-> rows[idx[k]]]

\* one value per file and tolerance
AllRowsOnePerFile(all_data) ==
    Concat([k \in 1..Len(all_data) |-> LastPerTolerance(DocRows(all_data[k]))])

\* the rows of all loaded documents, in file order then row order
AllRows(all_data) == Concat([k \in 1..Len(all_data) |-> DocRows(all_data[k])])

\* grouped[tol][field] after the grouping loop: the field of every row with
\* that tolerance, appended in the order the rows are met
RECURSIVE SelectField(_, _, _, _)
SelectField(rows, key, k, field) ==
    IF rows = <<>> THEN <<>>
    ELSE (IF Head(rows)[key] = k THEN <<Head(rows)[field]>> ELSE <<>>)
         \o SelectField(Tail(rows), key, k, field)

\* the mean of the per-file means of a field, over the files that hold the key
RECURSIVE FileMeansSum(_, _, _)
FileMeansSum(all_data, tol, field) ==
    IF all_data = <<>> THEN [num |-> 0, den |-> 1, files |-> 0]
    ELSE LET xs == SelectField(DocRows(Head(all_data)), "tolerance", tol, field)
             t == FileMeansSum(Tail(all_data), tol, field)
         IN  IF xs = <<>> THEN t
             ELSE [num |-> SumSeq(xs) * t.den + t.num * Len(xs),
                   den |-> Len(xs) * t.den, files |-> t.files + 1]

GroupMeanOfFileMeans(all_data, tol, field) ==
    LET t == FileMeansSum(all_data, tol, field)
    IN  [num |-> t.num, den |-> t.den * t.files]

\* np.mean(grouped[tol][field]): one mean over the pooled values
GroupMean(all_data, tol, field) ==
    np_mean(SelectField(AllRows(all_data), "tolerance", tol, field))

GroupStd(all_data, tol, field) ==
    np_std(SelectField(AllRows(all_data), "tolerance", tol, field))

\* the distinct values of a sequence in the order they are first met: the
\* order of the keys of a dict filled from it
RECURSIVE KeysInOrder(_)
KeysInOrder(ks) ==
    IF ks = <<>> THEN <<>>
    ELSE LET r == KeysInOrder(SubSeq(ks, 1, Len(ks) - 1))
         IN  IF ks[Len(ks)] \in Range(r) THEN r ELSE Append(r, ks[Len(ks)])

\* the averaging loop over grouped.keys() as they are, without sorted()
AveragedInsertionOrder(all_data) ==
    LET rows == AllRows(all_data)
        tols == KeysInOrder([i \in 1..Len(rows) |-> rows[i].tolerance])
    IN  [k \in 1..Len(tols) |->
            [tolerance |-> tols[k],
             iterations |-> GroupMean(all_data, tols[k], "iterations"),
             iterations_std |-> GroupStd(all_data, tols[k], "iterations"),
             executionTimeMs |-> GroupMean(all_data, tols[k], "executionTimeMs"),
             executionTimeMs_std |-> GroupStd(all_data, tols[k], "executionTimeMs")]]

\* the loop `for tol in sorted(grouped.keys())`
Averaged(all_data) ==
    LET rows == AllRows(all_data)
        tols == SeqOfSet({rows[i].tolerance : i \in 1..Len(rows)})
    IN  [k \in 1..Len(tols) |->
            [tolerance |-> tols[k],
             iterations |-> GroupMean(all_data, tols[k], "iterations"),
             iterations_std |-> GroupStd(all_data, tols[k], "iterations"),
             executionTimeMs |-> GroupMean(all_data, tols[k], "executionTimeMs"),
             executionTimeMs_std |-> GroupStd(all_data, tols[k], "executionTimeMs")]]

\* returns [status, none, value, opened]: none is Python's None
load_multiple_runs(tree, d, s) ==
    LET files == Glob(tree, Path(d, s, 0))
        loaded == LoadAll(tree, files)
        all_data == loaded.value
    IN  IF files = <<>>
        THEN [status |-> "ok", none |-> TRUE, value |-> <<>>, opened |-> <<>>]
        ELSE IF loaded.status = "raise"
        THEN [status |-> "raise", none |-> TRUE, value |-> <<>>, opened |-> loaded.opened]
        ELSE IF all_data[1].kind # "list"
        THEN [status |-> "ok", none |-> TRUE, value |-> <<>>, opened |-> loaded.opened]
        ELSE IF \E k \in 1..Len(all_data) : DocRaises(all_data[k])
        THEN [status |-> "raise", none |-> TRUE, value |-> <<>>, opened |-> loaded.opened]
        ELSE [status |-> "ok", none |-> FALSE, value |-> Averaged(all_data),
              opened |-> loaded.opened]

\* Python truthiness of what a loader returned: None and [] are false
Truthy(r) == ~r.none /\ r.value # <<>>

----------------------------------------------------------------------------
(* load_multiple_compare_runs *)

\* dict.get(k, default)
Get(r, k, default) == IF k \in DOMAIN r THEN r[k] ELSE default

PprRequired == {"iterations", "executionTimeMs", "communitySize"}
PushRequired ==
    {"epsilon", "pushOperations", "nodesProcessed", "executionTimeMs",
     "communitySize", "comparison"}
ComparisonRequired == {"l1Distance", "l2Distance", "correlation"}

\* the body of `for data in all_data` raises on this document: it is not an
\* object with ppr, push and speedup, or a key read with [...] is missing
CompareDocRaises(doc) ==
    \/ doc.kind # "object"
    \/ ~({"ppr", "push", "speedup"} \subseteq DOMAIN doc.obj)
    \/ ~(PprRequired \subseteq DOMAIN doc.obj.ppr)
    \/ \E i \in 1..Len(doc.obj.push) :
          \/ ~(PushRequired \subseteq DOMAIN doc.obj.push[i])
          \/ ~(ComparisonRequired \subseteq DOMAIN doc.obj.push[i].comparison)
    \/ \E i \in 1..Len(doc.obj.speedup) : "epsilon" \notin DOMAIN doc.obj.speedup[i]

\* what one document's ppr object appends to ppr_grouped
PprValues(ppr) ==
    [iterations |-> ppr.iterations,
     executionTimeMs |-> ppr.executionTimeMs,
     preprocessingTimeMs |-> Get(ppr, "preprocessingTimeMs", 0),
     algorithmTimeMs |-> Get(ppr, "algorithmTimeMs", ppr.executionTimeMs),
     communitySize |-> ppr.communitySize]

\* what one push row appends to push_grouped[eps]
PushValues(r) ==
    [epsilon |-> r.epsilon,
     pushOperations |-> r.pushOperations,
     nodesProcessed |-> r.nodesProcessed,
     executionTimeMs |-> r.executionTimeMs,
     preprocessingTimeMs |-> Get(r, "preprocessingTimeMs", 0),
     algorithmTimeMs |-> Get(r, "algorithmTimeMs", r.executionTimeMs),
     communitySize |-> r.communitySize,
     l1Distance |-> r.comparison.l1Distance,
     l2Distance |-> r.comparison.l2Distance,
     correlation |-> r.comparison.correlation]

\* both factors falling back to the old field speedupFactor
SpeedupValuesOldFactor(e) ==
    [epsilon |-> e.epsilon,
     speedupFactorTotal |->
        Get(e, "speedupFactorTotal", Get(e, "speedupFactor", 1)),
     speedupFactorAlgorithmOnly |->
        Get(e, "speedupFactorAlgorithmOnly",
            Get(e, "speedupFactorTotal", Get(e, "speedupFactor", 1)))]

\* what one speedup entry appends to speedup_grouped[eps]
SpeedupValues(e) ==
    [epsilon |-> e.epsilon,
     speedupFactorTotal |->
        Get(e, "speedupFactorTotal", Get(e, "speedupFactor", 1)),
     speedupFactorAlgorithmOnly |->
        Get(e, "speedupFactorAlgorithmOnly", Get(e, "speedupFactorTotal", 1))]

PprGrouped(all_data) == [k \in 1..Len(all_data) |-> PprValues(all_data[k].obj.ppr)]
\* a document's push rows kept together under the epsilon of its first row:
\* the document as one record instead of one record per row
PushGroupedByDocument(all_data) ==
    Concat([k \in 1..Len(all_data) |-> [i \in 1..Len(all_data[k].obj.push) |->
              [PushValues(all_data[k].obj.push[i])
                 EXCEPT !.epsilon = all_data[k].obj.push[1].epsilon]]])
PushGrouped(all_data) ==
    Concat([k \in 1..Len(all_data) |-> [i \in 1..Len(all_data[k].obj.push) |->
                                       PushValues(all_data[k].obj.push[i])]])
SpeedupGrouped(all_data) ==
    Concat([k \in 1..Len(all_data) |-> [i \in 1..Len(all_data[k].obj.speedup) |->
                                       SpeedupValues(all_data[k].obj.speedup[i])]])

Column(rows, field) == [i \in 1..Len(rows) |-> rows[i][field]]

ppr_averaged(all_data) ==
    LET g == PprGrouped(all_data)
    IN  [iterations |-> np_mean(Column(g, "iterations")),
         executionTimeMs |-> np_mean(Column(g, "executionTimeMs")),
         preprocessingTimeMs |-> np_mean(Column(g, "preprocessingTimeMs")),
         algorithmTimeMs |-> np_mean(Column(g, "algorithmTimeMs")),
         communitySize |-> np_mean(Column(g, "communitySize"))]

\* sorted(push_grouped.keys())
PushKeys(all_data) ==
    LET g == PushGrouped(all_data)
    IN  SeqOfSet({g[i].epsilon : i \in 1..Len(g)})

push_averaged(all_data) ==
    LET g == PushGrouped(all_data)
        keys == PushKeys(all_data)
    IN  [k \in 1..Len(keys) |->
          LET of(field) == SelectField(g, "epsilon", keys[k], field)
          IN  [epsilon |-> keys[k],
               pushOperations |-> np_mean(of("pushOperations")),
               pushOperations_std |-> np_std(of("pushOperations")),
               nodesProcessed |-> np_mean(of("nodesProcessed")),
               executionTimeMs |-> np_mean(of("executionTimeMs")),
               executionTimeMs_std |-> np_std(of("executionTimeMs")),
               preprocessingTimeMs |-> np_mean(of("preprocessingTimeMs")),
               algorithmTimeMs |-> np_mean(of("algorithmTimeMs")),
               communitySize |-> np_mean(of("communitySize")),
               comparison |->
                 [l1Distance |-> np_mean(of("l1Distance")),
                  l1Distance_std |-> np_std(of("l1Distance")),
                  l2Distance |-> np_mean(of("l2Distance")),
                  l2Distance_std |-> np_std(of("l2Distance")),
                  correlation |-> np_mean(of("correlation")),
                  correlation_std |-> np_std(of("correlation"))]]]

\* the speedup list built in a loop of its own over sorted(speedup_grouped.keys())
SpeedupAveragedOwnKeys(all_data) ==
    LET g == SpeedupGrouped(all_data)
        keys == SeqOfSet({g[i].epsilon : i \in 1..Len(g)})
    IN  [k \in 1..Len(keys) |->
          LET of(field) == SelectField(g, "epsilon", keys[k], field)
          IN  [epsilon |-> keys[k],
               speedupFactorTotal |-> np_mean(of("speedupFactorTotal")),
               speedupFactorTotal_std |-> np_std(of("speedupFactorTotal")),
               speedupFactorAlgorithmOnly |-> np_mean(of("speedupFactorAlgorithmOnly")),
               speedupFactorAlgorithmOnly_std |->
                  np_std(of("speedupFactorAlgorithmOnly"))]]

\* one entry per key of push_grouped; speedup_grouped is a defaultdict, so a key
\* it never saw yields two empty lists
speedup_averaged(all_data) ==
    LET g == SpeedupGrouped(all_data)
        keys == PushKeys(all_data)
    IN  [k \in 1..Len(keys) |->
          LET of(field) == SelectField(g, "epsilon", keys[k], field)
          IN  [epsilon |-> keys[k],
               speedupFactorTotal |-> np_mean(of("speedupFactorTotal")),
               speedupFactorTotal_std |-> np_std(of("speedupFactorTotal")),
               speedupFactorAlgorithmOnly |-> np_mean(of("speedupFactorAlgorithmOnly")),
               speedupFactorAlgorithmOnly_std |->
                  np_std(of("speedupFactorAlgorithmOnly"))]]

NoCompare == [ppr |-> <<>>, push |-> <<>>, speedup |-> <<>>]

\* returns [status, none, value, opened]: value is the dict {ppr, push, speedup}
load_multiple_compare_runs(tree, d, s) ==
    LET files == Glob(tree, Path(d, s, 0))
        loaded == LoadAll(tree, files)
        all_data == loaded.value
    IN  IF files = <<>>
        THEN [status |-> "ok", none |-> TRUE, value |-> NoCompare, opened |-> <<>>]
        ELSE IF loaded.status = "raise"
                \/ \E k \in 1..Len(all_data) : CompareDocRaises(all_data[k])
        THEN [status |-> "raise", none |-> TRUE, value |-> NoCompare,
              opened |-> loaded.opened]
        ELSE [status |-> "ok", none |-> FALSE,
              value |-> [ppr |-> ppr_averaged(all_data),
                         push |-> push_averaged(all_data),
                         speedup |-> speedup_averaged(all_data)],
              opened |-> loaded.opened]

----------------------------------------------------------------------------
(* plot_convergence *)

\* PATHS, and the results directory itself
Root == "."
PrDir == "pagerank/convergence"
DampingDir == "pagerank/damping"
PprDir == "ppr/convergence"
ThresholdDir == "ppr/community/threshold"
SeedDir == "ppr/community/seed"
PushDir == "push"
ScalabilityDir == "scalability"
PlotsDir == "plots"

\* plt.savefig(plots_dir / name) raises when the plots directory is missing
SavefigRaises(tree) == Dir(PlotsDir) \notin tree.dirs

\* the three curves of plot_convergence: the pattern of the run files, and the
\* list of single files tried when the runs give nothing
ConvKeys ==
    <<[name |-> "pr", dir |-> PrDir, stem |-> "pr_convergence",
       fallback |-> <<Path(Root, "pr_convergence", 0), Path(Root, "test_pr_conv", 0)>>],
      [name |-> "ppr_seed0", dir |-> PprDir, stem |-> "ppr_convergence_seed0",
       fallback |-> <<Path(Root, "ppr_convergence_seed0", 0),
                      Path(Root, "test_ppr_conv", 0)>>],
      [name |-> "ppr_multi", dir |-> PprDir, stem |-> "ppr_convergence_multi",
       fallback |-> <<Path(Root, "ppr_convergence_multi", 0)>>]>>

\* `if data:` on a loaded document
DocTruthy(doc) == IF doc.kind = "list" THEN doc.rows # <<>> ELSE DOMAIN doc.obj # {}

\* `for f in files: if f.exists(): data = load_json(f); if data: ...; break`
\* returns [status, found, opened]
RECURSIVE ConvFallback(_, _)
ConvFallback(tree, cands) ==
    IF cands = <<>> THEN [status |-> "ok", found |-> FALSE, opened |-> <<>>]
    ELSE IF ~Exists(tree, Head(cands)) THEN ConvFallback(tree, Tail(cands))
    ELSE LET l == load_json(tree, Head(cands))
         IN  IF l.status = "raise"
             THEN [status |-> "raise", found |-> FALSE, opened |-> <<Head(cands)>>]
             ELSE IF ~DocTruthy(l.value)
             THEN LET t == ConvFallback(tree, Tail(cands))
                  IN  [t EXCEPT !.opened = <<Head(cands)>> \o @]
             ELSE IF DocRaises(l.value)
             THEN [status |-> "raise", found |-> FALSE, opened |-> <<Head(cands)>>]
             ELSE [status |-> "ok", found |-> TRUE, opened |-> <<Head(cands)>>]

\* one curve: the runs first, the single files when the runs give nothing
\* returns [status, found, opened]
ConvCurve(tree, key) ==
    LET Single(r, f) == [f EXCEPT !.opened = r.opened \o @]
        Runs(r) ==
            IF r.status = "raise"
            THEN [status |-> "raise", found |-> FALSE, opened |-> r.opened]
            ELSE IF Truthy(r)
            THEN [status |-> "ok", found |-> TRUE, opened |-> r.opened]
            ELSE Single(r, ConvFallback(tree, key.fallback))
    IN  Runs(load_multiple_runs(tree, key.dir, key.stem))

\* the curves in turn; returns [status, curves, opened]
RECURSIVE ConvCurves(_, _)
ConvCurves(tree, keys) ==
    IF keys = <<>> THEN [status |-> "ok", curves |-> {}, opened |-> <<>>]
    ELSE LET Then(c, t) ==
                 [status |-> t.status,
                  curves |-> IF c.found THEN {Head(keys).name} \cup t.curves
                             ELSE t.curves,
                  opened |-> c.opened \o t.opened]
             First(c) ==
                 IF c.status = "raise"
                 THEN [status |-> "raise", curves |-> {}, opened |-> c.opened]
                 ELSE Then(c, ConvCurves(tree, Tail(keys)))
         IN  First(ConvCurve(tree, Head(keys)))

\* what the end of a plot function does with what it gathered: nothing to
\* draw returns without a figure, otherwise the figure is saved
\* returns [status, saved, drawn, opened]
Finish(tree, r, drawn) ==
    IF r.status = "raise"
    THEN [status |-> "raise", saved |-> FALSE, drawn |-> {}, opened |-> r.opened]
    ELSE IF drawn = {}
    THEN [status |-> "ok", saved |-> FALSE, drawn |-> {}, opened |-> r.opened]
    ELSE IF SavefigRaises(tree)
    THEN [status |-> "raise", saved |-> FALSE, drawn |-> drawn, opened |-> r.opened]
    ELSE [status |-> "ok", saved |-> TRUE, drawn |-> drawn, opened |-> r.opened]

plot_convergence(tree) ==
    LET Plot(r) == Finish(tree, r, r.curves)
    IN  Plot(ConvCurves(tree, ConvKeys))

----------------------------------------------------------------------------
(* plot_communities *)

\* the first index at which the sequence of booleans holds, 0 when there is
\* none
FirstFail(fails) ==
    IF \E i \in 1..Len(fails) : fails[i]
    THEN CHOOSE i \in 1..Len(fails) : fails[i] /\ \A j \in 1..(i - 1) : ~fails[j]
    ELSE 0

\* the files among `files` that load_json parses
Valid(tree, files) == {f \in Range(files) : tree.files[f].kind # "bad"}

\* `for f in files: data = load_json(f); <read data>`: the loop stops at the
\* first file that is not valid JSON or on which the read raises
\* (raising: the valid files on which the read raises)
\* returns [status, value, opened]: value the documents read
LoadEach(tree, files, raising) ==
    LET Stop(m) ==
            IF m = 0
            THEN [status |-> "ok",
                  value |-> [i \in 1..Len(files) |-> tree.files[files[i]]],
                  opened |-> files]
            ELSE [status |-> "raise", value |-> <<>>, opened |-> SubSeq(files, 1, m)]
    IN  Stop(FirstFail([i \in 1..Len(files) |->
                          \/ tree.files[files[i]].kind = "bad"
                          \/ files[i] \in raising]))

\* thresholds = [0.001, 0.005, 0.01, 0.02, 0.05, 0.1], in units of 1e-3
Thresholds == <<1, 5, 10, 20, 50, 100>>
Seeds == <<0, 10, 20, 30>>

\* data['communitySize'] raises
SizeRaises(doc) == doc.kind # "object" \/ "communitySize" \notin DOMAIN doc.obj

LoadSizes(tree, files) ==
    LoadEach(tree, files, {f \in Valid(tree, files) : SizeRaises(tree.files[f])})

\* data['community'][:10], then c['score'] of each entry kept, raise
ScoresRaise(doc) ==
    \/ doc.kind # "object"
    \/ "community" \notin DOMAIN doc.obj
    \/ \E i \in 1..Len(doc.obj.community) :
          i <= 10 /\ "score" \notin DOMAIN doc.obj.community[i]

\* the single-file branch also reads c['node']
NodesRaise(doc) ==
    \/ ScoresRaise(doc)
    \/ \E i \in 1..Len(doc.obj.community) :
          i <= 10 /\ "node" \notin DOMAIN doc.obj.community[i]

LoadNodes(tree, files) ==
    LoadEach(tree, files, {f \in Valid(tree, files) : NodesRaise(tree.files[f])})

\* test_community.json also reads data["seeds"][0]
TestCommunityRaises(doc) ==
    \/ NodesRaise(doc)
    \/ "seeds" \notin DOMAIN doc.obj
    \/ doc.obj.seeds = <<>>

LoadTestCommunity(tree, files) ==
    LoadEach(tree, files, {f \in Valid(tree, files) : TestCommunityRaises(tree.files[f])})

\* one threshold; returns [status, point, mean, std, opened]: point is <<>> for
\* the None appended when no file exists
ThresholdPoint(tree, t) ==
    LET file == ParamPath(ThresholdDir, "community_threshold", t, 0)
        run_files == Glob(tree, file)
    IN  IF run_files # <<>>
        THEN LET l == LoadSizes(tree, run_files)
                 sizes == [i \in 1..Len(l.value) |-> l.value[i].obj.communitySize]
             IN  IF l.status = "raise"
                 THEN [status |-> "raise", point |-> <<>>, opened |-> l.opened]
                 ELSE [status |-> "ok",
                       point |-> <<[threshold |-> t, mean |-> np_mean(sizes),
                                    std |-> np_std(sizes)]>>,
                       opened |-> l.opened]
        ELSE IF Exists(tree, file)
        THEN LET l == LoadSizes(tree, <<file>>)
             IN  IF l.status = "raise"
                 THEN [status |-> "raise", point |-> <<>>, opened |-> l.opened]
                 ELSE [status |-> "ok",
                       point |-> <<[threshold |-> t,
                                    mean |-> [num |-> l.value[1].obj.communitySize,
                                              den |-> 1],
                                    std |-> [num |-> 0, den |-> 1]]>>,
                       opened |-> l.opened]
        ELSE [status |-> "ok", point |-> <<>>, opened |-> <<>>]

\* the loop over thresholds; returns [status, points, opened]: points is
\* valid_data
RECURSIVE ThresholdPoints(_, _)
ThresholdPoints(tree, ts) ==
    IF ts = <<>> THEN [status |-> "ok", points |-> <<>>, opened |-> <<>>]
    ELSE LET h == ThresholdPoint(tree, Head(ts))
         IN  IF h.status = "raise"
             THEN [status |-> "raise", points |-> <<>>, opened |-> h.opened]
             ELSE LET t == ThresholdPoints(tree, Tail(ts))
                  IN  [status |-> t.status,
                       points |-> IF t.status = "ok" THEN h.point \o t.points ELSE <<>>,
                       opened |-> h.opened \o t.opened]

\* data['community'] raises
CommunityRaises(doc) == doc.kind # "object" \/ "community" \notin DOMAIN doc.obj

LoadCommunities(tree, files) ==
    LoadEach(tree, files, {f \in Valid(tree, files) : CommunityRaises(tree.files[f])})

\* one seed; returns [status, found, opened].  The run files are all loaded
\* before the scores are read; the single file is loaded and read at once
SeedBars(tree, seed) ==
    LET file == ParamPath(SeedDir, "community_seed", seed, 0)
        run_files == Glob(tree, file)
        l == IF run_files # <<>> THEN LoadCommunities(tree, run_files)
             ELSE IF Exists(tree, file) THEN LoadNodes(tree, <<file>>)
             ELSE [status |-> "ok", value |-> <<>>, opened |-> <<>>]
    IN  IF l.status = "ok" /\ \E i \in 1..Len(l.value) : ScoresRaise(l.value[i])
        THEN [status |-> "raise", found |-> FALSE, opened |-> l.opened]
        ELSE [status |-> l.status, found |-> l.status = "ok" /\ l.value # <<>>,
              opened |-> l.opened]

RECURSIVE SeedsBars(_, _)
SeedsBars(tree, seeds) ==
    IF seeds = <<>> THEN [status |-> "ok", found |-> FALSE, opened |-> <<>>]
    ELSE LET h == SeedBars(tree, Head(seeds))
         IN  IF h.status = "raise" THEN h
             ELSE LET t == SeedsBars(tree, Tail(seeds))
                  IN  [status |-> t.status, found |-> h.found \/ t.found,
                       opened |-> h.opened \o t.opened]

TestCommunityFile == Path(Root, "test_community", 0)

\* the right panel: test_community.json when it exists, else the seeds
ScoreBars(tree) ==
    IF Exists(tree, TestCommunityFile)
    THEN LET l == LoadTestCommunity(tree, <<TestCommunityFile>>)
         IN  [status |-> l.status, found |-> l.status = "ok", opened |-> l.opened]
    ELSE SeedsBars(tree, Seeds)

\* a plot function's result with the series it gathered for its error bars
WithPoints(f, points) ==
    [status |-> f.status, saved |-> f.saved, drawn |-> f.drawn, opened |-> f.opened,
     points |-> points]

\* returns [status, saved, drawn, opened, points]: points is valid_data
plot_communities(tree) ==
    LET Right(left, right) ==
            Finish(tree,
                   [status |-> right.status, opened |-> left.opened \o right.opened],
                   (IF left.points # <<>> THEN {"threshold"} ELSE {})
                   \cup (IF right.status = "ok" /\ right.found THEN {"scores"} ELSE {}))
        Left(left) ==
            WithPoints(IF left.status = "raise" THEN Finish(tree, left, {})
                       ELSE Right(left, ScoreBars(tree)),
                       left.points)
    IN  Left(ThresholdPoints(tree, Thresholds))

----------------------------------------------------------------------------
(* plot_push_vs_ppr, plot_push_operations *)

\* compare_files of plot_push_vs_ppr
CompareFiles ==
    <<Path(PushDir, "compare_seed0", 0), Path(Root, "push_vs_ppr_seed0", 0),
      Path(Root, "test_compare", 0)>>

\* the old location tried before the push directory
PushOperationsFilesRootFirst ==
    <<Path(Root, "push_vs_ppr_seed0", 0), Path(PushDir, "compare_seed0", 0),
      Path(Root, "test_compare", 0)>>

\* compare_files of plot_push_operations
PushOperationsFiles ==
    <<Path(PushDir, "compare_seed0", 0), Path(Root, "push_vs_ppr_seed0", 0),
      Path(Root, "test_compare", 0)>>

\* `for f in compare_files: if f.exists(): data = load_json(f); break`
\* returns [status, none, value, opened]
RECURSIVE FirstExisting(_, _)
FirstExisting(tree, cands) ==
    IF cands = <<>>
    THEN [status |-> "ok", none |-> TRUE, value |-> BadDoc, opened |-> <<>>]
    ELSE IF ~Exists(tree, Head(cands)) THEN FirstExisting(tree, Tail(cands))
    ELSE LET l == load_json(tree, Head(cands))
         IN  [status |-> l.status, none |-> l.status = "raise", value |-> l.value,
              opened |-> <<Head(cands)>>]

\* the comparison data a function plots: the averaged runs <d>/<s>_run*.json,
\* else the first single file of cands that exists.
\* returns [status, empty, averaged, doc, opened]: empty is `not data`
ResolveCompare(tree, d, s, cands) ==
    LET Single(f) ==
            [status |-> f.status,
             empty |-> f.none \/ ~DocTruthy(f.value),
             averaged |-> FALSE, doc |-> f.value, opened |-> f.opened]
        Runs(r) ==
            IF r.status = "raise"
            THEN [status |-> "raise", empty |-> TRUE, averaged |-> FALSE,
                  doc |-> BadDoc, opened |-> r.opened]
            ELSE IF ~r.none
            THEN [status |-> "ok", empty |-> FALSE, averaged |-> TRUE,
                  doc |-> ObjDoc(r.value), opened |-> r.opened]
            ELSE Single(FirstExisting(tree, cands))
    IN  Runs(load_multiple_compare_runs(tree, d, s))

\* data of plot_push_vs_ppr
CompareData(tree) == ResolveCompare(tree, PushDir, "compare_seed0", CompareFiles)

\* data of plot_push_operations
PushOperationsData(tree) ==
    ResolveCompare(tree, PushDir, "compare_seed0", PushOperationsFiles)

\* the reads of plot_push_vs_ppr on a single file's document raise; the two
\* errorbar calls zip epsilons with the speedups, and raise on unequal lengths
PushVsPprRaises(doc) ==
    \/ doc.kind # "object"
    \/ ~({"ppr", "push", "speedup"} \subseteq DOMAIN doc.obj)
    \/ "executionTimeMs" \notin DOMAIN doc.obj.ppr
    \/ \E i \in 1..Len(doc.obj.push) :
          \/ ~({"epsilon", "comparison", "executionTimeMs"}
                  \subseteq DOMAIN doc.obj.push[i])
          \/ "l1Distance" \notin DOMAIN doc.obj.push[i].comparison
    \/ Len(doc.obj.push) # Len(doc.obj.speedup)

PushOperationsRaises(doc) ==
    \/ doc.kind # "object"
    \/ "push" \notin DOMAIN doc.obj
    \/ \E i \in 1..Len(doc.obj.push) :
          ~({"epsilon", "pushOperations", "nodesProcessed"}
              \subseteq DOMAIN doc.obj.push[i])

\* d: what CompareData found; raises: the reads on a single file's document
\* raise
\* returns [status, saved, drawn, opened, data, averaged]: data is the
\* document plotted, averaged says it came from the run files
PlotCompare(tree, d, raises) ==
    Finish(tree,
           [status |-> IF raises THEN "raise" ELSE d.status, opened |-> d.opened],
           IF d.status = "ok" /\ ~d.empty THEN {"compare"} ELSE {})
    @@ [data |-> d.doc, averaged |-> d.averaged]

\* the document is a single file's, read without averaging
SingleFile(d) == d.status = "ok" /\ ~d.empty /\ ~d.averaged

plot_push_vs_ppr(tree) ==
    LET Plot(d) == PlotCompare(tree, d, SingleFile(d) /\ PushVsPprRaises(d.doc))
    IN  Plot(CompareData(tree))

plot_push_operations(tree) ==
    LET Plot(d) == PlotCompare(tree, d, SingleFile(d) /\ PushOperationsRaises(d.doc))
    IN  Plot(PushOperationsData(tree))

----------------------------------------------------------------------------
(* plot_damping *)

\* damping_values = [0.10, 0.30, 0.50, 0.65, 0.75, 0.85, 0.90, 0.95, 1.0], in
\* units of 1e-2
DampingValues == <<10, 30, 50, 65, 75, 85, 90, 95, 100>>

\* [r["iterations"] for r in data] raises
IterationsRaise(doc) ==
    IF doc.kind = "list"
    THEN \E i \in 1..Len(doc.rows) : "iterations" \notin DOMAIN doc.rows[i]
    ELSE doc.kind # "object" \/ DOMAIN doc.obj # {}

LoadIterations(tree, files) ==
    LoadEach(tree, files, {f \in Valid(tree, files) : IterationsRaise(tree.files[f])})

DocIterations(doc) == Column(DocRows(doc), "iterations")

\* one damping value; returns [status, point, opened]
DampingPoint(tree, damping) ==
    LET single_file == ParamPath(DampingDir, "pr_damping", damping, 0)
        files == Glob(tree, single_file)
    IN  IF files # <<>>
        THEN LET l == LoadIterations(tree, files)
                 all_iterations ==
                     Concat([i \in 1..Len(l.value) |-> DocIterations(l.value[i])])
             IN  IF l.status = "raise"
                 THEN [status |-> "raise", point |-> <<>>, opened |-> l.opened]
                 ELSE [status |-> "ok",
                       point |-> <<[damping |-> damping,
                                    mean |-> np_mean(all_iterations),
                                    std |-> np_std(all_iterations)]>>,
                       opened |-> l.opened]
        ELSE IF Exists(tree, single_file)
        THEN LET l == LoadIterations(tree, <<single_file>>)
             IN  IF l.status = "raise"
                 THEN [status |-> "raise", point |-> <<>>, opened |-> l.opened]
                 ELSE [status |-> "ok",
                       point |-> <<[damping |-> damping,
                                    mean |-> np_mean(DocIterations(l.value[1])),
                                    std |-> [num |-> 0, den |-> 1]]>>,
                       opened |-> l.opened]
        ELSE [status |-> "ok", point |-> <<>>, opened |-> <<>>]

RECURSIVE DampingPoints(_, _)
DampingPoints(tree, ds) ==
    IF ds = <<>> THEN [status |-> "ok", points |-> <<>>, opened |-> <<>>]
    ELSE LET h == DampingPoint(tree, Head(ds))
         IN  IF h.status = "raise"
             THEN [status |-> "raise", points |-> <<>>, opened |-> h.opened]
             ELSE LET t == DampingPoints(tree, Tail(ds))
                  IN  [status |-> t.status,
                       points |-> IF t.status = "ok" THEN h.point \o t.points ELSE <<>>,
                       opened |-> h.opened \o t.opened]

\* returns [status, saved, drawn, opened, points]: points is dampings,
\* avg_iters and std_iters
plot_damping(tree) ==
    LET Plot(r) ==
            WithPoints(Finish(tree, r, IF r.points # <<>> THEN {"damping"} ELSE {}),
                       r.points)
    IN  Plot(DampingPoints(tree, DampingValues))

----------------------------------------------------------------------------
(* plot_scalability *)

RECURSIVE Pow10Below(_)
\* the largest power of ten that is at most x (x >= 1)
Pow10Below(x) == IF x < 10 THEN 1 ELSE 10 * Pow10Below(x \div 10)

\* f"{x:.0e}": x rounded to one significant digit (ties to even).  The string
\* is given by the number it denotes: '1e-03' is 1000000 (units of 1e-9)
FormatE0(x) ==
    LET p == Pow10Below(x)
        q == x \div p
        r == x % p
        d == IF 2 * r > p THEN q + 1
             ELSE IF 2 * r < p THEN q
             ELSE IF q % 2 = 0 THEN q ELSE q + 1
    IN  d * p

\* the keys of pr_data and ppr_data: '1e-03', '1e-05', '1e-07'
TolKeys == <<1000000, 10000, 100>>
\* the keys of push_data: '1e-02', '1e-03', '1e-04', '1e-05'
EpsKeys == <<10000000, 1000000, 100000, 10000>>

\* the sizes of both layouts together
ScalSizesOfBothLayouts(tree) ==
    SeqOfSet({d.sub : d \in {x \in tree.dirs : x.dir = ScalabilityDir /\ x.sub >= 0}}
             \cup {f.param : f \in {x \in DOMAIN tree.files :
                        /\ x.dir = ScalabilityDir /\ x.sub < 0
                        /\ x.stem = "graph" /\ x.param >= 0}})

\* the sizes the function loops over: the size_<N> directories, and only when
\* there is none the N of the flat files graph_<N>_run*.json and graph_<N>.json
ScalSizesOf(tree) ==
    LET new == {d.sub : d \in {x \in tree.dirs : x.dir = ScalabilityDir /\ x.sub >= 0}}
        old == {f.param : f \in {x \in DOMAIN tree.files :
                    /\ x.dir = ScalabilityDir /\ x.sub < 0
                    /\ x.stem = "graph" /\ x.param >= 0}}
    IN  SeqOfSet(IF new # {} THEN new ELSE old)

\* results_array: the document when it is a list, else its 'results' member
ResultsArray(doc) == IF doc.kind = "list" THEN doc.rows ELSE Get(doc.obj, "results", <<>>)

\* the loop over results_array raises: no tolerance, or a row whose key is one
\* of pr_data's lacks a value read from it
ScalConvRaises(doc) ==
    \E i \in 1..Len(ResultsArray(doc)) :
        LET r == ResultsArray(doc)[i]
        IN  \/ "tolerance" \notin DOMAIN r
            \/ /\ FormatE0(r.tolerance) \in Range(TolKeys)
               /\ ~({"iterations", "executionTimeMs"} \subseteq DOMAIN r)

LoadScalConv(tree, files) ==
    LoadEach(tree, files, {f \in Valid(tree, files) : ScalConvRaises(tree.files[f])})

\* every row appended under its formatted tolerance, as a defaultdict would
\* take it, a missing value read as 0
ScalConvEntriesAnyKey(doc, size) ==
    LET rows == ResultsArray(doc)
    IN  [i \in 1..Len(rows) |->
            [key |-> FormatE0(rows[i].tolerance), size |-> size,
             iterations |-> Get(rows[i], "iterations", 0),
             times |-> Get(rows[i], "executionTimeMs", 0)]]

\* what the rows of one document append to pr_data: one entry per row whose
\* formatted tolerance is a key
ScalConvEntries(doc, size) ==
    LET Kept(r) == FormatE0(r.tolerance) \in Range(TolKeys)
        Entry(r) == [key |-> FormatE0(r.tolerance), size |-> size,
                     iterations |-> r.iterations, times |-> r.executionTimeMs]
        Entries(rows) == [i \in 1..Len(rows) |-> Entry(rows[i])]
    IN  Entries(SelectSeq(ResultsArray(doc), Kept))

\* the loop over compare_results['push'] raises
ScalCompareRaises(doc) ==
    \/ doc.kind # "object"
    \/ "push" \notin DOMAIN doc.obj
    \/ \E i \in 1..Len(doc.obj.push) :
          LET r == doc.obj.push[i]
          IN  \/ "epsilon" \notin DOMAIN r
              \/ /\ FormatE0(r.epsilon) \in Range(EpsKeys)
                 /\ \/ ~({"executionTimeMs", "pushOperations", "comparison"}
                            \subseteq DOMAIN r)
                    \/ "l1Distance" \notin DOMAIN r.comparison
                    \/ "speedup" \notin DOMAIN doc.obj
                    \/ i > Len(doc.obj.speedup)

LoadScalCompare(tree, files) ==
    LoadEach(tree, files, {f \in Valid(tree, files) : ScalCompareRaises(tree.files[f])})

\* the speedup of a push row looked up by the epsilon field of the speedup
\* entries (the first entry with the row's epsilon, 1 when there is none)
ScalCompareEntriesByEpsilon(doc, size) ==
    LET idx == SeqOfSet({i \in 1..Len(doc.obj.push) :
                            FormatE0(doc.obj.push[i].epsilon) \in Range(EpsKeys)})
    IN  [k \in 1..Len(idx) |->
          LET r == doc.obj.push[idx[k]]
              same == {j \in 1..Len(doc.obj.speedup) :
                          /\ "epsilon" \in DOMAIN doc.obj.speedup[j]
                          /\ doc.obj.speedup[j].epsilon = r.epsilon}
              sp == IF same = {} THEN <<>> ELSE doc.obj.speedup[CHOOSE j \in same : \A l \in same : j <= l]
          IN  [key |-> FormatE0(r.epsilon), size |-> size,
               times |-> r.executionTimeMs, operations |-> r.pushOperations,
               speedups |-> Get(sp, "speedupFactorTotal", Get(sp, "speedupFactor", 1)),
               l1s |-> r.comparison.l1Distance]]

\* what the push rows of one document append to push_data: the speedup of row
\* i is read from speedup[i]
ScalCompareEntries(doc, size) ==
    LET idx == SeqOfSet({i \in 1..Len(doc.obj.push) :
                            FormatE0(doc.obj.push[i].epsilon) \in Range(EpsKeys)})
    IN  [k \in 1..Len(idx) |->
          LET r == doc.obj.push[idx[k]]
              sp == doc.obj.speedup[idx[k]]
          IN  [key |-> FormatE0(r.epsilon), size |-> size,
               times |-> r.executionTimeMs, operations |-> r.pushOperations,
               speedups |-> Get(sp, "speedupFactorTotal", Get(sp, "speedupFactor", 1)),
               l1s |-> r.comparison.l1Distance]]

\* the files read for one experiment of one size: the run files of size_<N>
\* when that directory exists, else the flat run files; when there is no run
\* file, the flat single file
ScalFiles(tree, size, exp) ==
    LET run_files ==
            IF SizeDir(ScalabilityDir, size) \in tree.dirs
            THEN Glob(tree, SizePath(ScalabilityDir, size, exp, 0))
            ELSE Glob(tree, ParamPath(ScalabilityDir, exp, size, 0))
        file == ParamPath(ScalabilityDir, exp, size, 0)
    IN  IF run_files # <<>> THEN run_files
        ELSE IF Exists(tree, file) THEN <<file>> ELSE <<>>

\* one size; returns [status, pr, ppr, push, opened]
ScalSize(tree, size) ==
    LET Conv(l) == Concat([i \in 1..Len(l.value) |-> ScalConvEntries(l.value[i], size)])
        Of(pr, ppr, cmp) ==
            IF pr.status = "raise"
            THEN [status |-> "raise", pr |-> <<>>, ppr |-> <<>>, push |-> <<>>,
                  opened |-> pr.opened]
            ELSE IF ppr.status = "raise"
            THEN [status |-> "raise", pr |-> <<>>, ppr |-> <<>>, push |-> <<>>,
                  opened |-> pr.opened \o ppr.opened]
            ELSE IF cmp.status = "raise"
            THEN [status |-> "raise", pr |-> <<>>, ppr |-> <<>>, push |-> <<>>,
                  opened |-> pr.opened \o ppr.opened \o cmp.opened]
            ELSE [status |-> "ok", pr |-> Conv(pr), ppr |-> Conv(ppr),
                  push |-> Concat([i \in 1..Len(cmp.value) |->
                                      ScalCompareEntries(cmp.value[i], size)]),
                  opened |-> pr.opened \o ppr.opened \o cmp.opened]
    IN  Of(LoadScalConv(tree, ScalFiles(tree, size, "pr_conv")),
           LoadScalConv(tree, ScalFiles(tree, size, "ppr_conv")),
           LoadScalCompare(tree, ScalFiles(tree, size, "compare")))

\* the loop over sizes; returns [status, pr, ppr, push, opened]: pr, ppr and
\* push are pr_data, ppr_data and push_data as lists of entries
RECURSIVE ScalData(_, _)
ScalData(tree, sizes) ==
    IF sizes = <<>>
    THEN [status |-> "ok", pr |-> <<>>, ppr |-> <<>>, push |-> <<>>, opened |-> <<>>]
    ELSE LET Then(h, t) ==
                 IF t.status = "raise"
                 THEN [t EXCEPT !.opened = h.opened \o @]
                 ELSE [status |-> "ok", pr |-> h.pr \o t.pr, ppr |-> h.ppr \o t.ppr,
                       push |-> h.push \o t.push, opened |-> h.opened \o t.opened]
             First(h) ==
                 IF h.status = "raise" THEN h ELSE Then(h, ScalData(tree, Tail(sizes)))
         IN  First(ScalSize(tree, Head(sizes)))

\* the entries of one key
OfKey(entries, key) == SelectSeq(entries, LAMBDA e : e.key = key)

\* np.mean and np.std of a field over the entries of each size of sizes_sorted
SizeMeans(entries, sizes_sorted, field) ==
    [k \in 1..Len(sizes_sorted) |->
        np_mean(SelectField(entries, "size", sizes_sorted[k], field))]

SizeStds(entries, sizes_sorted, field) ==
    [k \in 1..Len(sizes_sorted) |->
        np_std(SelectField(entries, "size", sizes_sorted[k], field))]

\* averaged: a dict with the keys that have at least one entry
average_by_size(entries) ==
    [key \in {entries[i].key : i \in 1..Len(entries)} |->
        LET es == OfKey(entries, key)
            sizes_sorted == SeqOfSet({es[i].size : i \in 1..Len(es)})
        IN  [sizes |-> sizes_sorted,
             iterations |-> SizeMeans(es, sizes_sorted, "iterations"),
             iterations_std |-> SizeStds(es, sizes_sorted, "iterations"),
             times |-> SizeMeans(es, sizes_sorted, "times"),
             times_std |-> SizeStds(es, sizes_sorted, "times")]]

average_push_by_size(entries) ==
    [key \in {entries[i].key : i \in 1..Len(entries)} |->
        LET es == OfKey(entries, key)
            sizes_sorted == SeqOfSet({es[i].size : i \in 1..Len(es)})
        IN  [sizes |-> sizes_sorted,
             operations |-> SizeMeans(es, sizes_sorted, "operations"),
             operations_std |-> SizeStds(es, sizes_sorted, "operations"),
             times |-> SizeMeans(es, sizes_sorted, "times"),
             times_std |-> SizeStds(es, sizes_sorted, "times"),
             speedups |-> SizeMeans(es, sizes_sorted, "speedups"),
             speedups_std |-> SizeStds(es, sizes_sorted, "speedups"),
             l1s |-> SizeMeans(es, sizes_sorted, "l1s"),
             l1s_std |-> SizeStds(es, sizes_sorted, "l1s")]]

\* returns [status, saved, drawn, opened, sizes, pr_averaged, ppr_averaged,
\* push_averaged].  With at least one size the four figures are saved, whatever
\* was loaded: drawn names the families with a curve in them
plot_scalability(tree) ==
    LET Figures(sizes, d, raises) ==
            [status |-> IF raises THEN "raise" ELSE "ok",
             saved |-> sizes # <<>> /\ ~raises,
             drawn |-> (IF d.pr # <<>> THEN {"pr_conv"} ELSE {})
                       \cup (IF d.ppr # <<>> THEN {"ppr_conv"} ELSE {})
                       \cup (IF d.push # <<>> THEN {"compare"} ELSE {}),
             opened |-> d.opened,
             sizes |-> sizes,
             pr_averaged |-> average_by_size(d.pr),
             ppr_averaged |-> average_by_size(d.ppr),
             push_averaged |-> average_push_by_size(d.push)]
        Loaded(sizes, d) ==
            Figures(sizes, d, d.status = "raise" \/ (sizes # <<>> /\ SavefigRaises(tree)))
        Sizes(sizes) == Loaded(sizes, ScalData(tree, sizes))
    IN  Sizes(ScalSizesOf(tree))

----------------------------------------------------------------------------
(* main *)

\* a try without its except clause: the exception leaves main
AfterTryUncaught(status, next) == IF status = "raise" THEN "crashed" ELSE next

\* try: unit(results_dir) except Exception: print(...) -- whatever the unit
\* did, control passes to the statement after the try
AfterTry(status, next) == next

\* the statement after the try of plot_damping: plot_scalability only when
\* the scalability directory exists
AfterDamping(tree) ==
    IF Dir(ScalabilityDir) \in tree.dirs THEN "plot_scalability" ELSE "summary"

----------------------------------------------------------------------------
(* Results trees the reducers are applied to *)

NoTree == [files |-> <<>>, dirs |-> {}]
NoOut == [status |-> "none"]

\* In every tree the first run file that exists is drawn from a rich set of
\* documents and the later ones from a small one.

\* tolerances 1e-5 and 1e-3, in units of 1e-9
Tols == {10000, 1000000}
Iters == {1, 2, 4}
Times == {3, 8}

ConvRows ==
    [tolerance : Tols, iterations : Iters, executionTimeMs : Times]
    \cup [tolerance : Tols, iterations : {2}]

ConvDocs ==
    {BadDoc, ObjDoc([results |-> <<>>])}
    \cup {ListDoc(rs) : rs \in SeqsUpTo(ConvRows, MaxRows)}

MoreConvDocs ==
    {BadDoc, ObjDoc([results |-> <<>>])}
    \cup {ListDoc(rs) :
            rs \in SeqsUpTo([tolerance : Tols, iterations : {1, 4}, executionTimeMs : {3}], 1)}

\* epsilons 1e-3 and 1e-2, in units of 1e-9
Eps == {1000000, 10000000}

Opt(k, V) == {<<>>} \cup {k :> v : v \in V}

PushRow(eps, ops) ==
    [epsilon |-> eps, pushOperations |-> ops, nodesProcessed |-> 7,
     executionTimeMs |-> 9, communitySize |-> 3,
     comparison |-> [l1Distance |-> 1, l2Distance |-> 1, correlation |-> 1]]

PushRows ==
    {PushRow(e, o) @@ pre :
        e \in Eps, o \in {5, 50}, pre \in Opt("preprocessingTimeMs", {2, 4})}
    \cup {PushRow(e, 5) @@ ("algorithmTimeMs" :> 6) : e \in Eps}
    \cup {[epsilon |-> e, nodesProcessed |-> 7] : e \in Eps}

SpeedupRow(eps, t, a) ==
    [epsilon |-> eps, speedupFactorTotal |-> t, speedupFactorAlgorithmOnly |-> a]

SpeedupRows ==
    {[epsilon |-> e] @@ t @@ f @@ a :
        e \in Eps, t \in Opt("speedupFactorTotal", {3}),
        f \in Opt("speedupFactor", {2}), a \in Opt("speedupFactorAlgorithmOnly", {5})}
    \cup {[speedupFactorTotal |-> 3]}

PprRow(it) == [iterations |-> it, executionTimeMs |-> 9, communitySize |-> 3]

PprRows ==
    {PprRow(it) @@ pre @@ alg :
        it \in {10, 20}, pre \in Opt("preprocessingTimeMs", {1}),
        alg \in Opt("algorithmTimeMs", {6})}
    \cup {[iterations |-> 10]}

CompareDoc(ppr, push, speedup) ==
    ObjDoc([ppr |-> ppr, push |-> push, speedup |-> speedup])

\* the speedup list a producer writes for a push list: one entry per row
SpeedupFor(push) ==
    [i \in 1..Len(push) |-> SpeedupRow(push[i].epsilon, 3, 5)]

\* the push lists with at most one row per epsilon
OnePerEps ==
    {<<>>} \cup {<<PushRow(e, 5)>> : e \in Eps}
    \cup {<<PushRow(q[1], 5), PushRow(q[2], 5)>> :
            q \in {x \in Eps \X Eps : x[1] # x[2]}}

CompareDocs ==
    {BadDoc, ListDoc(<<>>), ObjDoc([push |-> <<>>, speedup |-> <<>>])}
    \cup {CompareDoc(PprRow(10), push, SpeedupFor(push)) :
            push \in SeqsUpTo(PushRows, MaxRows)}
    \cup {CompareDoc(PprRow(10), push, speedup) :
            push \in OnePerEps, speedup \in SeqsUpTo(SpeedupRows, MaxRows)}
    \cup {CompareDoc(ppr, <<PushRow(1000000, 5)>>, <<SpeedupRow(1000000, 3, 5)>>) :
            ppr \in PprRows}

MoreCompareDocs ==
    {BadDoc}
    \cup {CompareDoc(PprRow(20), <<PushRow(e, 50) @@ ("preprocessingTimeMs" :> 4)>>,
                      <<SpeedupRow(e, 4, 4)>>) : e \in Eps}
    \cup {CompareDoc(PprRow(20), <<PushRow(1000000, 50)>>, <<>>),
          CompareDoc(PprRow(20), <<>>, <<SpeedupRow(10000000, 4, 4)>>)}

\* the tree that holds the run files <d>/<s>_run<i>.json, i in DOMAIN f, with
\* content f[i]
RunTree(d, s, f) ==
    [files |-> [p \in {Path(d, s, i) : i \in DOMAIN f} |-> f[p.run]],
     dirs |-> {Dir(PlotsDir)}]

Least(S) == CHOOSE x \in S : \A y \in S : x <= y

\* the run files S with `first` in the first of them and rest[i] in the others
RunFiles(S, first, rest) == [i \in S |-> IF i = Least(S) THEN first ELSE rest[i]]

\* the files <base>_run<i>.json, i in DOMAIN f, with content f[i]
RunsAt(base, f) == [p \in {[base EXCEPT !.run = i] : i \in DOMAIN f} |-> f[p.run]]

\* graph sizes
GraphSizes == {100, 200}

\* tolerances 1e-3, 1.2e-3 and 1e-2: the first two are written '1e-03' by
\* f"{x:.0e}" and the last '1e-02'
ScalTols == {1000000, 1200000, 10000000}

ScalConvRows ==
    [tolerance : ScalTols, iterations : {2, 4}, executionTimeMs : {3}]
    \cup {[tolerance |-> 1000000, iterations |-> 2], [iterations |-> 2],
          [tolerance |-> 10000000]}

ScalConvDocs ==
    {BadDoc} \cup {ListDoc(rs) : rs \in SeqsUpTo(ScalConvRows, MaxRows)}
    \cup {ObjDoc([results |-> <<r>>]) : r \in ScalConvRows}

ScalConvRow(it) == [tolerance |-> 1000000, iterations |-> it, executionTimeMs |-> 8]

MoreScalConvDocs == {BadDoc, ListDoc(<<ScalConvRow(1)>>), ListDoc(<<ScalConvRow(4)>>)}

\* epsilons 1e-3, 1.2e-3 and 1e-7
ScalPushRows ==
    {PushRow(e, o) : e \in {1000000, 1200000, 100}, o \in {5, 50}}
    \cup {[epsilon |-> 1000000]}

\* the speedup lists written next to a push list: one entry per row, no
\* entry, entries of the old schema, entries without a factor, the entries in
\* the reverse order of the rows, and the list without its last entry
ScalSpeedups(push) ==
    {SpeedupFor(push), <<>>,
     [i \in 1..Len(push) |-> [speedupFactor |-> 2]],
     [i \in 1..Len(push) |-> [epsilon |-> push[i].epsilon]],
     [i \in 1..Len(push) |-> SpeedupRow(push[Len(push) + 1 - i].epsilon, 2 * i, 5)],
     SubSeq(SpeedupFor(push), 1, Len(push) - 1)}

ScalCompareDocs ==
    {BadDoc, ListDoc(<<>>), ObjDoc([speedup |-> <<>>])}
    \cup UNION {{ObjDoc([push |-> push, speedup |-> sp]) : sp \in ScalSpeedups(push)} :
                push \in SeqsUpTo(ScalPushRows, MaxRows)}

ScalCompareDoc(ops) ==
    ObjDoc([push |-> <<PushRow(1000000, ops)>>,
            speedup |-> <<SpeedupRow(1000000, 4, 4)>>])

MoreScalCompareDocs == {BadDoc, ScalCompareDoc(5), ScalCompareDoc(50)}

\* graph_<N>.json and graph_<N>_run1.json: only their names are read
GraphFiles == {ParamPath(ScalabilityDir, "graph", n, r) : n \in GraphSizes, r \in 0..1}

\* where the files of experiment exp for size n can be: the run file and the
\* single file, in size_<n> and in the scalability directory
ScalPlaces(exp, n) ==
    {SizePath(ScalabilityDir, n, exp, 1), SizePath(ScalabilityDir, n, exp, 0),
     ParamPath(ScalabilityDir, exp, n, 1), ParamPath(ScalabilityDir, exp, n, 0)}

\* a document of experiment exp, told apart by the place it is in
PlaceDoc(exp, p) ==
    LET v == (IF p.sub >= 0 THEN 1 ELSE 2) + (IF p.run > 0 THEN 0 ELSE 2)
    IN  IF exp = "compare" THEN ScalCompareDoc(v)
        ELSE ListDoc(<<ScalConvRow(v)>>)

\* the base of the run files of exp for size n
ScalRunBase(exp, n, in_dir) ==
    IF in_dir THEN SizePath(ScalabilityDir, n, exp, 0)
    ELSE ParamPath(ScalabilityDir, exp, n, 0)

\* zero or one file at place p, its content one of Docs
OptFile(p, Docs) == {<<>>} \cup {p :> d : d \in Docs}

GoodConvDoc == ListDoc(<<[tolerance |-> 1000000, iterations |-> 2, executionTimeMs |-> 3]>>)
GoodCommunityDoc ==
    ObjDoc([community |-> <<[node |-> 1, score |-> 5]>>, communitySize |-> 3,
            seeds |-> <<0>>])
GoodCompareDoc ==
    CompareDoc(PprRow(10), <<PushRow(1000000, 5)>>, <<SpeedupRow(1000000, 3, 5)>>)

\* the files of each unit of main: the run file, the single file and the
\* files of the results root
ConvParts ==
    {a @@ b @@ c @@ d :
        a \in OptFile(Path(PrDir, "pr_convergence", 1), {GoodConvDoc, ListDoc(<<>>), BadDoc}),
        b \in OptFile(Path(Root, "pr_convergence", 0), {GoodConvDoc, ListDoc(<<>>)}),
        c \in OptFile(Path(Root, "test_pr_conv", 0), {GoodConvDoc}),
        d \in OptFile(Path(Root, "test_ppr_conv", 0), {GoodConvDoc})}

CommunityParts ==
    {a @@ b @@ c @@ d :
        a \in OptFile(ParamPath(SeedDir, "community_seed", 0, 1), {GoodCommunityDoc, BadDoc}),
        b \in OptFile(ParamPath(SeedDir, "community_seed", 0, 0), {GoodCommunityDoc}),
        c \in OptFile(TestCommunityFile, {GoodCommunityDoc}),
        d \in OptFile(ParamPath(ThresholdDir, "community_threshold", 1, 0),
                      {GoodCommunityDoc, BadDoc})}

CompareParts ==
    {a @@ b @@ c @@ d :
        a \in OptFile(Path(PushDir, "compare_seed0", 1), {GoodCompareDoc, BadDoc}),
        b \in OptFile(Path(PushDir, "compare_seed0", 0), {GoodCompareDoc}),
        c \in OptFile(Path(Root, "push_vs_ppr_seed0", 0), {GoodCompareDoc}),
        d \in OptFile(Path(Root, "test_compare", 0),
                      {GoodCompareDoc, ObjDoc([push |-> <<PushRow(1000000, 5)>>])})}

DampingParts ==
    {a @@ b :
        a \in OptFile(ParamPath(DampingDir, "pr_damping", 85, 1), {GoodConvDoc, BadDoc}),
        b \in OptFile(ParamPath(DampingDir, "pr_damping", 85, 0), {GoodConvDoc})}

\* the scalability directory: absent, or with or without size_100 and files
ScalParts ==
    {[files |-> <<>>, dirs |-> {}]}
    \cup {[files |-> a @@ b @@ c,
           dirs |-> {Dir(ScalabilityDir)} \cup D] :
            a \in OptFile(SizePath(ScalabilityDir, 100, "pr_conv", 1), {GoodConvDoc, BadDoc}),
            b \in OptFile(ParamPath(ScalabilityDir, "pr_conv", 100, 0), {GoodConvDoc}),
            c \in OptFile(ParamPath(ScalabilityDir, "graph", 100, 0), {ListDoc(<<>>)}),
            D \in {{}, {SizeDir(ScalabilityDir, 100)}}}

\* a scalability part has files in size_100 only when size_100 exists
ScalPartOk(sc) ==
    \A p \in DOMAIN sc.files : p.sub >= 0 => SizeDir(ScalabilityDir, p.sub) \in sc.dirs

\* the units each with no file, a good file or a file that is not JSON
PlainConv == {<<>>, Path(PrDir, "pr_convergence", 1) :> GoodConvDoc,
              Path(PrDir, "pr_convergence", 1) :> BadDoc}
PlainCommunity == {<<>>, ParamPath(SeedDir, "community_seed", 0, 1) :> GoodCommunityDoc,
                   ParamPath(SeedDir, "community_seed", 0, 1) :> BadDoc}
PlainCompare == {<<>>, Path(PushDir, "compare_seed0", 1) :> GoodCompareDoc,
                 Path(PushDir, "compare_seed0", 1) :> BadDoc}
PlainDamping == {<<>>, ParamPath(DampingDir, "pr_damping", 85, 1) :> GoodConvDoc,
                 ParamPath(DampingDir, "pr_damping", 85, 1) :> BadDoc}
PlainScal ==
    {[files |-> <<>>, dirs |-> {}],
     [files |-> <<>>, dirs |-> {Dir(ScalabilityDir)}]}
    \cup {[files |-> SizePath(ScalabilityDir, 100, "pr_conv", 1) :> d,
           dirs |-> {Dir(ScalabilityDir), SizeDir(ScalabilityDir, 100)}] :
            d \in {GoodConvDoc, BadDoc}}

\* the units with no file (k = 1) or a good run file (k = 2)
PlainConv_(k) == IF k = 1 THEN <<>> ELSE Path(PrDir, "pr_convergence", 1) :> GoodConvDoc
PlainCommunity_(k) ==
    IF k = 1 THEN <<>> ELSE ParamPath(SeedDir, "community_seed", 0, 1) :> GoodCommunityDoc
PlainCompare_(k) ==
    IF k = 1 THEN <<>> ELSE Path(PushDir, "compare_seed0", 1) :> GoodCompareDoc
PlainDamping_(k) ==
    IF k = 1 THEN <<>> ELSE ParamPath(DampingDir, "pr_damping", 85, 1) :> GoodConvDoc
PlainScal_(k) ==
    IF k = 1 THEN [files |-> <<>>, dirs |-> {}]
    ELSE [files |-> SizePath(ScalabilityDir, 100, "pr_conv", 1) :> GoodConvDoc,
          dirs |-> {Dir(ScalabilityDir), SizeDir(ScalabilityDir, 100)}]

\* the results tree made of the files of each unit
MainTree(conv, comm, cmp, damp, scal, plots_dir) ==
    [files |-> conv @@ comm @@ cmp @@ damp @@ scal.files,
     dirs |-> scal.dirs \cup (IF plots_dir THEN {Dir(PlotsDir)} ELSE {})]

----------------------------------------------------------------------------
(* The reducers, each applied to a results tree *)

InitMain0 ==
    /\ graphs_generated = 0
    /\ errors = <<>>
    /\ calls = <<>>
    /\ plots = {}

InitRuns ==
    /\ pc = "load_multiple_runs"
    /\ \/ fs = NoTree
       \/ \E S \in SUBSET (1..MaxRuns) \ {{}} : \E first \in ConvDocs :
            \E rest \in [S \ {Least(S)} -> MoreConvDocs] :
                fs = RunTree(PrDir, "pr_convergence", RunFiles(S, first, rest))
    /\ out = NoOut
    /\ InitMain0

CallLoadMultipleRuns ==
    /\ pc = "load_multiple_runs"
    /\ out' = load_multiple_runs(fs, PrDir, "pr_convergence")
    /\ pc' = "load_multiple_runs_done"
    /\ UNCHANGED <<fs, graphs_generated, errors, calls, plots>>

SpecRuns == InitRuns /\ [][CallLoadMultipleRuns]_vars

InitCompare ==
    /\ pc = "load_multiple_compare_runs"
    /\ \/ fs = NoTree
       \/ \E S \in SUBSET (1..MaxRuns) \ {{}} : \E first \in CompareDocs :
            \E rest \in [S \ {Least(S)} -> MoreCompareDocs] :
                fs = RunTree(PushDir, "compare_seed0", RunFiles(S, first, rest))
    /\ out = NoOut
    /\ InitMain0

CallLoadMultipleCompareRuns ==
    /\ pc = "load_multiple_compare_runs"
    /\ out' = load_multiple_compare_runs(fs, PushDir, "compare_seed0")
    /\ pc' = "load_multiple_compare_runs_done"
    /\ UNCHANGED <<fs, graphs_generated, errors, calls, plots>>

SpecCompare == InitCompare /\ [][CallLoadMultipleCompareRuns]_vars

\* the scalability directory of a results tree: the content of the run files
\* of one experiment is varied, or the places where the files are
InitScal ==
    /\ pc = "plot_scalability"
    /\ \/ fs = NoTree
       \/ \E in_dir \in BOOLEAN, single \in BOOLEAN, exp \in {"pr_conv", "ppr_conv"} :
            \E S \in SUBSET (1..MaxRuns) \ {{}} : \E first \in ScalConvDocs :
              \E rest \in [S \ {Least(S)} -> MoreScalConvDocs] :
                fs = [files |->
                        RunsAt(ScalRunBase(exp, 100, in_dir), RunFiles(S, first, rest))
                        @@ (IF single
                            THEN ParamPath(ScalabilityDir, exp, 100, 0)
                                    :> ListDoc(<<ScalConvRow(2)>>)
                            ELSE <<>>)
                        @@ (ParamPath(ScalabilityDir, "graph", 100, 0) :> ListDoc(<<>>)),
                      dirs |-> {Dir(PlotsDir), Dir(ScalabilityDir)}
                               \cup (IF in_dir THEN {SizeDir(ScalabilityDir, 100)} ELSE {})]
       \/ \E in_dir \in BOOLEAN :
            \E S \in SUBSET (1..MaxRuns) \ {{}} : \E first \in ScalCompareDocs :
              \E rest \in [S \ {Least(S)} -> MoreScalCompareDocs] :
                fs = [files |->
                        RunsAt(ScalRunBase("compare", 100, in_dir), RunFiles(S, first, rest))
                        @@ (ParamPath(ScalabilityDir, "graph", 100, 0) :> ListDoc(<<>>)),
                      dirs |-> {Dir(PlotsDir), Dir(ScalabilityDir)}
                               \cup (IF in_dir THEN {SizeDir(ScalabilityDir, 100)} ELSE {})]
       \/ \E exp \in {"pr_conv", "ppr_conv", "compare"}, plots_dir \in BOOLEAN :
            \E D \in SUBSET GraphSizes, G \in SUBSET GraphFiles :
              \E P \in SUBSET (ScalPlaces(exp, 100) \cup {ParamPath(ScalabilityDir, exp, 200, 0)}) :
                fs = [files |-> [p \in P |-> PlaceDoc(exp, p)] @@ [p \in G |-> ListDoc(<<>>)],
                      dirs |-> {Dir(ScalabilityDir)}
                               \cup {SizeDir(ScalabilityDir, n) : n \in D}
                               \cup (IF plots_dir THEN {Dir(PlotsDir)} ELSE {})]
    /\ out = NoOut
    /\ InitMain0

CallPlotScalability ==
    /\ pc = "plot_scalability"
    /\ out' = plot_scalability(fs)
    /\ pc' = "plot_scalability_done"
    /\ UNCHANGED <<fs, graphs_generated, errors, calls, plots>>

SpecScal == InitScal /\ [][CallPlotScalability]_vars

\* community sizes 3, 5 and 9
SizeDocs ==
    {BadDoc, ObjDoc([community |-> <<>>])}
    \cup {ObjDoc([communitySize |-> n]) : n \in {3, 5, 9}}

\* the files of one curve of plot_convergence: the run file <d>/<s>_run1.json,
\* the single file <d>/<s>.json beside it and the single file <s>.json of the
\* results root, each present or not
ConvSeriesFiles(d, s, RunDocs, RootDocs) ==
    {a @@ b @@ c :
        a \in OptFile(Path(d, s, 1), RunDocs),
        b \in OptFile(Path(d, s, 0), {GoodConvDoc}),
        c \in OptFile(Path(Root, s, 0), RootDocs)}

\* the series with error bars of plot_damping and plot_communities: for a
\* parameter value the run files, or the single file, or both
InitSeries ==
    /\ \/ /\ pc = "plot_damping"
          /\ \E single \in BOOLEAN, other \in BOOLEAN :
               \E S \in SUBSET (1..MaxRuns) \ {{}} : \E first \in ConvDocs :
                 \E rest \in [S \ {Least(S)} -> MoreConvDocs] :
                   fs = [files |->
                           RunsAt(ParamPath(DampingDir, "pr_damping", 85, 0),
                                  RunFiles(S, first, rest))
                           @@ (IF single
                               THEN ParamPath(DampingDir, "pr_damping", 85, 0)
                                       :> GoodConvDoc
                               ELSE <<>>)
                           @@ (IF other
                               THEN ParamPath(DampingDir, "pr_damping", 10, 0) :> GoodConvDoc
                               ELSE <<>>),
                         dirs |-> {Dir(PlotsDir)}]
       \/ /\ pc = "plot_damping"
          /\ \E other \in BOOLEAN, plots_dir \in BOOLEAN :
               \E one \in OptFile(ParamPath(DampingDir, "pr_damping", 85, 0), ConvDocs) :
                   fs = [files |->
                           one
                           @@ (IF other
                               THEN ParamPath(DampingDir, "pr_damping", 10, 0) :> GoodConvDoc
                               ELSE <<>>),
                         dirs |-> IF plots_dir THEN {Dir(PlotsDir)} ELSE {}]
       \/ /\ pc = "plot_communities"
          /\ \E S \in SUBSET (1..MaxRuns), single \in BOOLEAN, other \in BOOLEAN :
               \E f \in [S -> SizeDocs] : \E one \in SizeDocs :
                   fs = [files |->
                           RunsAt(ParamPath(ThresholdDir, "community_threshold", 5, 0), f)
                           @@ (IF single
                               THEN ParamPath(ThresholdDir, "community_threshold", 5, 0)
                                       :> one
                               ELSE <<>>)
                           @@ (IF other
                               THEN ParamPath(ThresholdDir, "community_threshold", 1, 0)
                                       :> ObjDoc([communitySize |-> 3])
                               ELSE <<>>),
                         dirs |-> {Dir(PlotsDir)}]
       \/ /\ pc = "plot_convergence"
          /\ \E plots_dir \in BOOLEAN :
               \E pr \in ConvSeriesFiles(PrDir, "pr_convergence", {GoodConvDoc, ListDoc(<<>>), BadDoc},
                                         {GoodConvDoc, ListDoc(<<>>)}) :
                 \E seed0 \in ConvSeriesFiles(PprDir, "ppr_convergence_seed0", {GoodConvDoc},
                                              {GoodConvDoc}) :
                   \E multi \in ConvSeriesFiles(PprDir, "ppr_convergence_multi", {}, {GoodConvDoc}) :
                       fs = [files |-> pr @@ seed0 @@ multi,
                             dirs |-> IF plots_dir THEN {Dir(PlotsDir)} ELSE {}]
    /\ out = NoOut
    /\ InitMain0

CallPlotConvergence ==
    /\ pc = "plot_convergence"
    /\ out' = plot_convergence(fs)
    /\ pc' = "plot_convergence_done"
    /\ UNCHANGED <<fs, graphs_generated, errors, calls, plots>>

CallPlotDamping ==
    /\ pc = "plot_damping"
    /\ out' = plot_damping(fs)
    /\ pc' = "plot_damping_done"
    /\ UNCHANGED <<fs, graphs_generated, errors, calls, plots>>

CallPlotCommunities ==
    /\ pc = "plot_communities"
    /\ out' = plot_communities(fs)
    /\ pc' = "plot_communities_done"
    /\ UNCHANGED <<fs, graphs_generated, errors, calls, plots>>

NextSeries == CallPlotDamping \/ CallPlotCommunities \/ CallPlotConvergence

SpecSeries == InitSeries /\ [][NextSeries]_vars

\* a comparison document told apart by its number of push operations
PushDocAt(k) ==
    CompareDoc(PprRow(10), <<PushRow(1000000, k)>>, <<SpeedupRow(1000000, 3, 5)>>)

\* a comparison document without its speedup list
NoSpeedupDoc == ObjDoc([ppr |-> PprRow(10), push |-> <<PushRow(1000000, 7)>>])

\* the comparison files of a results directory: a run file, and the single
\* files of the push directory and of the two old locations, each present or
\* not; plot_push_vs_ppr then plot_push_operations are called on it
InitPush ==
    /\ pc = "plot_push_vs_ppr"
    /\ \E plots_dir \in BOOLEAN :
         \E run \in OptFile(Path(PushDir, "compare_seed0", 1), {PushDocAt(4), BadDoc}) :
           \E a \in OptFile(Path(PushDir, "compare_seed0", 0),
                            {PushDocAt(1), BadDoc, ObjDoc(<<>>), NoSpeedupDoc}) :
             \E b \in OptFile(Path(Root, "push_vs_ppr_seed0", 0), {PushDocAt(2), NoSpeedupDoc}) :
               \E c \in OptFile(Path(Root, "test_compare", 0), {PushDocAt(3)}) :
                   fs = [files |-> run @@ a @@ b @@ c,
                         dirs |-> IF plots_dir THEN {Dir(PlotsDir)} ELSE {}]
    /\ out = NoOut
    /\ InitMain0

CallPlotPushVsPpr ==
    /\ pc = "plot_push_vs_ppr"
    /\ out' = [status |-> "pending", vs_ppr |-> plot_push_vs_ppr(fs)]
    /\ pc' = "plot_push_operations"
    /\ UNCHANGED <<fs, graphs_generated, errors, calls, plots>>

CallPlotPushOperations ==
    /\ pc = "plot_push_operations"
    /\ out' = [status |-> "pair", vs_ppr |-> out.vs_ppr,
               operations |-> plot_push_operations(fs)]
    /\ pc' = "plot_push_done"
    /\ UNCHANGED <<fs, graphs_generated, errors, calls, plots>>

NextPush == CallPlotPushVsPpr \/ CallPlotPushOperations

SpecPush == InitPush /\ [][NextPush]_vars

\* the three reducers side by side
InitReduce == InitRuns \/ InitCompare \/ InitScal

NextReduce == CallLoadMultipleRuns \/ CallLoadMultipleCompareRuns \/ CallPlotScalability

SpecReduce == InitReduce /\ [][NextReduce]_vars

----------------------------------------------------------------------------
(* main, applied to a results directory *)

\* the results directory: every unit with no file, a good one or a bad one,
\* or the files of one unit varied and the other units with or without data
Init ==
    /\ pc = "plot_convergence"
    /\ \E plots_dir \in BOOLEAN :
         \/ \E conv \in PlainConv, comm \in PlainCommunity, cmp \in PlainCompare,
               damp \in PlainDamping, scal \in PlainScal :
                 fs = MainTree(conv, comm, cmp, damp, scal, plots_dir)
         \/ \E k \in 1..2, unit \in 1..5 :
              \E conv \in IF unit = 1 THEN ConvParts ELSE {PlainConv_(k)},
                 comm \in IF unit = 2 THEN CommunityParts ELSE {PlainCommunity_(k)},
                 cmp \in IF unit = 3 THEN CompareParts ELSE {PlainCompare_(k)},
                 damp \in IF unit = 4 THEN DampingParts ELSE {PlainDamping_(k)},
                 scal \in IF unit = 5 THEN {sc \in ScalParts : ScalPartOk(sc)}
                          ELSE {PlainScal_(k)} :
                   fs = MainTree(conv, comm, cmp, damp, scal, plots_dir)
    /\ out = NoOut
    /\ InitMain0

\* one unit of main: the call in its try block, the count when it returns,
\* the message when it raises
Unit(name, result, next) ==
    /\ pc = name
    /\ out' = result
    /\ calls' = Append(calls, name)
    /\ IF result.status = "raise"
       THEN errors' = Append(errors, name) /\ UNCHANGED graphs_generated
       ELSE graphs_generated' = graphs_generated + 1 /\ UNCHANGED errors
    /\ plots' = IF result.saved THEN plots \cup {name} ELSE plots
    /\ pc' = AfterTry(result.status, next)
    /\ UNCHANGED fs

PlotConvergence == Unit("plot_convergence", plot_convergence(fs), "plot_communities")

PlotCommunities == Unit("plot_communities", plot_communities(fs), "plot_push_vs_ppr")

PlotPushVsPpr == Unit("plot_push_vs_ppr", plot_push_vs_ppr(fs), "plot_push_operations")

PlotPushOperations == Unit("plot_push_operations", plot_push_operations(fs), "plot_damping")

PlotDamping == Unit("plot_damping", plot_damping(fs), AfterDamping(fs))

PlotScalability == Unit("plot_scalability", plot_scalability(fs), "summary")

\* the final message: the count when it is positive, else that nothing could
\* be generated
Summary ==
    /\ pc = "summary"
    /\ out' = [status |-> "summary",
               message |-> IF graphs_generated > 0 THEN "generated" ELSE "none",
               count |-> graphs_generated]
    /\ pc' = "done"
    /\ UNCHANGED <<fs, graphs_generated, errors, calls, plots>>

Next ==
    \/ PlotConvergence
    \/ PlotCommunities
    \/ PlotPushVsPpr
    \/ PlotPushOperations
    \/ PlotDamping
    \/ PlotScalability
    \/ Summary

Spec == Init /\ [][Next]_vars

----------------------------------------------------------------------------
(* Properties *)

RECURSIVE SumFn(_)
\* the sum of the values of a function with a finite domain
SumFn(f) ==
    IF DOMAIN f = {} THEN 0
    ELSE LET x == CHOOSE x \in DOMAIN f : TRUE
         IN  f[x] + SumFn([y \in DOMAIN f \ {x} |-> f[y]])

ListFiles == {p \in DOMAIN fs.files : fs.files[p].kind = "list"}
ObjFiles == {p \in DOMAIN fs.files : fs.files[p].kind = "object"}

\* the places <<file, index>> of the rows of the tree with tolerance t
TolPlaces(t) ==
    UNION {{<<p, j>> : j \in {i \in 1..Len(fs.files[p].rows) :
                                fs.files[p].rows[i].tolerance = t}} : p \in ListFiles}

\* the places <<file, index>> of the push rows of the tree with epsilon e
PushPlaces(e) ==
    UNION {{<<p, j>> : j \in {i \in 1..Len(fs.files[p].obj.push) :
                                fs.files[p].obj.push[i].epsilon = e}} : p \in ObjFiles}

SpeedupPlaces(e) ==
    UNION {{<<p, j>> : j \in {i \in 1..Len(fs.files[p].obj.speedup) :
                                fs.files[p].obj.speedup[i].epsilon = e}} : p \in ObjFiles}

PushAt(q) == fs.files[q[1]].obj.push[q[2]]

\* the units of main in the order of its try blocks
UnitOrder ==
    <<"plot_convergence", "plot_communities", "plot_push_vs_ppr", "plot_push_operations",
      "plot_damping">>
    \o (IF Dir(ScalabilityDir) \in fs.dirs THEN <<"plot_scalability">> ELSE <<>>)

\* out is what unit u did: u is the last unit called and the summary has not
\* replaced its result
Returned(u) == calls # <<>> /\ calls[Len(calls)] = u /\ out.status \in {"ok", "raise"}

Opened == Range(out.opened)

Key(unit, label, base, canonical, legacy) ==
    [unit |-> unit, label |-> label, base |-> base, canonical |-> canonical,
     legacy |-> legacy]

\* the experiment keys: the unit that resolves the key, the label of what it
\* draws for it, the base name of its run files, its canonical single file
\* and its files in the results root
ExperimentKeys ==
    {Key("plot_convergence", ConvKeys[i].name, Path(ConvKeys[i].dir, ConvKeys[i].stem, 0),
         {ConvKeys[i].fallback[1]}, Range(ConvKeys[i].fallback) \ {ConvKeys[i].fallback[1]}) :
        i \in 1..Len(ConvKeys)}
    \cup {Key("plot_communities", "threshold",
              ParamPath(ThresholdDir, "community_threshold", t, 0),
              {ParamPath(ThresholdDir, "community_threshold", t, 0)}, {}) :
            t \in Range(Thresholds)}
    \cup {Key("plot_communities", "scores", ParamPath(SeedDir, "community_seed", sd, 0),
              {ParamPath(SeedDir, "community_seed", sd, 0)}, {TestCommunityFile}) :
            sd \in Range(Seeds)}
    \cup {Key(u, "compare", Path(PushDir, "compare_seed0", 0), {CompareFiles[1]},
              {CompareFiles[2], CompareFiles[3]}) :
            u \in {"plot_push_vs_ppr", "plot_push_operations"}}
    \cup {Key("plot_damping", "damping", ParamPath(DampingDir, "pr_damping", d, 0),
              {ParamPath(DampingDir, "pr_damping", d, 0)}, {}) :
            d \in Range(DampingValues)}
    \cup {Key("plot_scalability", x[1],
              ScalRunBase(x[1], x[2], SizeDir(ScalabilityDir, x[2]) \in fs.dirs),
              {SizePath(ScalabilityDir, x[2], x[1], 0),
               ParamPath(ScalabilityDir, x[1], x[2], 0)}, {}) :
            x \in {"pr_conv", "ppr_conv", "compare"} \X Range(ScalSizesOf(fs))}

HasRuns(k) == Glob(fs, k.base) # <<>>
HasCanonical(k) == k.canonical \cap DOMAIN fs.files # {}
HasFile(k) == HasRuns(k) \/ (k.canonical \cup k.legacy) \cap DOMAIN fs.files # {}

\* C1: for every experiment key with at least one run file in its directory,
\* the unit that resolves it opens neither the key's single file nor a file of
\* the results root for it, whatever the run files contain.
C1_MultiRunAuthoritative ==
    \A k \in ExperimentKeys :
        (Returned(k.unit) /\ HasRuns(k)) => Opened \cap (k.canonical \cup k.legacy) = {}

\* C2: a file of the results root is read for a key only when the key has
\* neither run files nor its canonical single file.
C2_LegacyOnlyWhenAbsent ==
    \A k \in ExperimentKeys :
        (Returned(k.unit) /\ (HasRuns(k) \/ HasCanonical(k))) => Opened \cap k.legacy = {}

\* C3: whatever a unit raises is caught and recorded and never leaves main:
\* the units called so far are the first units of main's order
\* (plot_scalability when the scalability directory exists), control is at
\* the unit that follows them, and at the summary once all were called.
C3_UnitsIsolated ==
    /\ pc # "crashed"
    /\ Len(calls) <= Len(UnitOrder)
    /\ calls = SubSeq(UnitOrder, 1, Len(calls))
    /\ IF Len(calls) < Len(UnitOrder)
       THEN pc = UnitOrder[Len(calls) + 1]
       ELSE pc \in {"summary", "done"}
    /\ Range(errors) \subseteq Range(calls)
    /\ graphs_generated + Len(errors) = Len(calls)
    /\ out.status = "raise" => errors # <<>> /\ errors[Len(errors)] = calls[Len(calls)]

\* main is at its end, the first unit raised and the five later ones were
\* called all the same
C3_Witness ==
    /\ pc = "done"
    /\ errors # <<>> /\ errors[1] = "plot_convergence"
    /\ Len(calls) = 6

\* C4: a unit none of whose keys has a file under any rule returns without
\* raising and without output, and nothing is drawn for a label none of whose
\* keys has a file.
C4_EmptySelectionNotAnError ==
    /\ pc # "crashed"
    /\ \A u \in Range(UnitOrder) :
          (Returned(u) /\ \A k \in ExperimentKeys : k.unit = u => ~HasFile(k)) =>
              out.status = "ok" /\ ~out.saved /\ out.drawn = {}
    /\ \A k \in ExperimentKeys :
          (Returned(k.unit)
             /\ \A k2 \in ExperimentKeys :
                   (k2.unit = k.unit /\ k2.label = k.label) => ~HasFile(k2)) =>
              k.label \notin out.drawn

\* C5: the count of the summary is the number of units that saved a figure.
C5_CountIsProduced ==
    pc = "done" => out.count = Cardinality(plots)

RunsReturned ==
    pc = "load_multiple_runs_done" /\ out.status = "ok" /\ ~out.none

CompareReturned ==
    pc = "load_multiple_compare_runs_done" /\ out.status = "ok" /\ ~out.none

ScalReturned == pc = "plot_scalability_done" /\ out.status = "ok"

\* np.mean of the values of a function of places, recomputed from the rows
\* themselves
Pooled(values) == [num |-> SumFn(values), den |-> Cardinality(DOMAIN values)]

TolAt(q) == fs.files[q[1]].rows[q[2]]
SpeedupAt(q) == fs.files[q[1]].obj.speedup[q[2]]
PprFieldAt(p, field) == fs.files[p].obj.ppr[field]

\* the files plot_scalability opened for experiment exp and size n
ScalOpened(exp, n) ==
    {p \in Opened : p.stem = exp /\ (p.sub = n \/ (p.sub < 0 /\ p.param = n))}

\* the places <<file, index>> of the rows plot_scalability read for exp and n
ScalPlacesRead(exp, n) ==
    UNION {{<<p, j>> : j \in 1..Len(IF exp = "compare" THEN fs.files[p].obj.push
                                    ELSE ResultsArray(fs.files[p]))} :
            p \in ScalOpened(exp, n)}

ScalRowAt(exp, q) ==
    IF exp = "compare" THEN fs.files[q[1]].obj.push[q[2]]
    ELSE ResultsArray(fs.files[q[1]])[q[2]]

ScalParamAt(exp, q) ==
    IF exp = "compare" THEN ScalRowAt(exp, q).epsilon ELSE ScalRowAt(exp, q).tolerance

ScalAveraged(exp) ==
    IF exp = "pr_conv" THEN out.pr_averaged
    ELSE IF exp = "ppr_conv" THEN out.ppr_averaged ELSE out.push_averaged

\* the position of size n in the sizes of an averaged entry
SizeIndex(a, n) == CHOOSE i \in 1..Len(a.sizes) : a.sizes[i] = n

\* C6: every mean the reducers emit is the mean of the row values pooled over
\* all the files read for that parameter value: its numerator is the sum of
\* the rows' values and its denominator their number, however the rows are
\* spread over the files.  (load_multiple_runs, load_multiple_compare_runs and
\* the averaging of plot_scalability; the metrics are those every pooled row
\* carries.)
C6_PooledMean ==
    /\ RunsReturned =>
          \A k \in 1..Len(out.value) :
              LET e == out.value[k]
                  Q == TolPlaces(e.tolerance)
                  It(q) == TolAt(q).iterations
                  Ti(q) == TolAt(q).executionTimeMs
              IN  /\ Q # {}
                  /\ FracEq(e.iterations, Pooled([qv \in Q |-> It(qv)]))
                  /\ e.iterations.den = Cardinality(Q)
                  /\ FracEq(e.executionTimeMs, Pooled([qv \in Q |-> Ti(qv)]))
    /\ CompareReturned =>
          /\ \A k \in 1..Len(out.value.push) :
                LET e == out.value.push[k]
                    Q == PushPlaces(e.epsilon)
                    Ops(q) == PushAt(q).pushOperations
                    Nodes(q) == PushAt(q).nodesProcessed
                    Ti(q) == PushAt(q).executionTimeMs
                    L1(q) == PushAt(q).comparison.l1Distance
                    Pre(q) == PushAt(q).preprocessingTimeMs
                IN  /\ Q # {}
                    /\ FracEq(e.pushOperations, Pooled([qv \in Q |-> Ops(qv)]))
                    /\ e.pushOperations.den = Cardinality(Q)
                    /\ FracEq(e.nodesProcessed, Pooled([qv \in Q |-> Nodes(qv)]))
                    /\ FracEq(e.executionTimeMs, Pooled([qv \in Q |-> Ti(qv)]))
                    /\ FracEq(e.comparison.l1Distance, Pooled([qv \in Q |-> L1(qv)]))
                    /\ (\A q \in Q : "preprocessingTimeMs" \in DOMAIN PushAt(q)) =>
                          FracEq(e.preprocessingTimeMs, Pooled([qv \in Q |-> Pre(qv)]))
          /\ LET It(p) == PprFieldAt(p, "iterations")
             IN  FracEq(out.value.ppr.iterations, Pooled([qv \in ObjFiles |-> It(qv)]))
          /\ \A k \in 1..Len(out.value.speedup) :
                LET e == out.value.speedup[k]
                    Q == SpeedupPlaces(e.epsilon)
                    Total(q) == SpeedupAt(q).speedupFactorTotal
                IN  (\A q \in Q : "speedupFactorTotal" \in DOMAIN SpeedupAt(q)) =>
                        FracEq(e.speedupFactorTotal, Pooled([qv \in Q |-> Total(qv)]))
    /\ ScalReturned =>
          \A exp \in {"pr_conv", "ppr_conv", "compare"} :
            \A key \in DOMAIN ScalAveraged(exp) :
              LET a == ScalAveraged(exp)[key]
              IN  \A i \in 1..Len(a.sizes) :
                    LET Q == {q \in ScalPlacesRead(exp, a.sizes[i]) :
                                FormatE0(ScalParamAt(exp, q)) = key}
                        It(q) == ScalRowAt(exp, q).iterations
                        Ti(q) == ScalRowAt(exp, q).executionTimeMs
                        Ops(q) == ScalRowAt(exp, q).pushOperations
                        L1(q) == ScalRowAt(exp, q).comparison.l1Distance
                    IN  /\ Q # {}
                        /\ FracEq(a.times[i], Pooled([qv \in Q |-> Ti(qv)]))
                        /\ a.times[i].den = Cardinality(Q)
                        /\ IF exp = "compare"
                           THEN /\ FracEq(a.operations[i], Pooled([qv \in Q |-> Ops(qv)]))
                                /\ FracEq(a.l1s[i], Pooled([qv \in Q |-> L1(qv)]))
                           ELSE FracEq(a.iterations[i], Pooled([qv \in Q |-> It(qv)]))

\* load_multiple_runs averaged rows that are spread unevenly over two files,
\* and the mean it emits is not the mean of the two files' means
C6_Witness ==
    /\ RunsReturned
    /\ Len(out.opened) = 2
    /\ \E k \in 1..Len(out.value) :
          ~FracEq(out.value[k].iterations,
                  GroupMeanOfFileMeans([i \in 1..Len(out.opened) |-> fs.files[out.opened[i]]],
                                       out.value[k].tolerance, "iterations"))

\* C8: rows are bucketed by the parsed value of their parameter: every row
\* read is in the bucket of its own value, and that bucket holds exactly the
\* rows with that value.
C8_ExactBuckets ==
    /\ RunsReturned =>
          \A p \in ListFiles : \A j \in 1..Len(fs.files[p].rows) :
              \E k \in 1..Len(out.value) :
                  /\ out.value[k].tolerance = fs.files[p].rows[j].tolerance
                  /\ out.value[k].iterations.den
                        = Cardinality(TolPlaces(fs.files[p].rows[j].tolerance))
    /\ CompareReturned =>
          \A p \in ObjFiles : \A j \in 1..Len(fs.files[p].obj.push) :
              \E k \in 1..Len(out.value.push) :
                  /\ out.value.push[k].epsilon = fs.files[p].obj.push[j].epsilon
                  /\ out.value.push[k].pushOperations.den
                        = Cardinality(PushPlaces(fs.files[p].obj.push[j].epsilon))
    /\ ScalReturned =>
          \A exp \in {"pr_conv", "ppr_conv", "compare"} : \A n \in Range(out.sizes) :
            \A q \in ScalPlacesRead(exp, n) :
              LET x == ScalParamAt(exp, q)
                  a == ScalAveraged(exp)
              IN  /\ x \in DOMAIN a
                  /\ n \in Range(a[x].sizes)
                  /\ a[x].times[SizeIndex(a[x], n)].den
                        = Cardinality({q2 \in ScalPlacesRead(exp, n) :
                                          ScalParamAt(exp, q2) = x})

\* C9: for a size whose size_<N> directory exists plot_scalability opens no
\* flat file named with N, and reads the single file of size_<N> when
\* size_<N> has no run file.
C9_ResolvedInsideSizeDir ==
    pc = "plot_scalability_done" =>
        \A n \in Range(out.sizes) :
            SizeDir(ScalabilityDir, n) \in fs.dirs =>
                /\ \A p \in Opened : ~(p.sub < 0 /\ p.param = n)
                /\ out.status = "ok" =>
                      \A exp \in {"pr_conv", "ppr_conv", "compare"} :
                          (/\ Glob(fs, SizePath(ScalabilityDir, n, exp, 0)) = <<>>
                           /\ Exists(fs, SizePath(ScalabilityDir, n, exp, 0))) =>
                              SizePath(ScalabilityDir, n, exp, 0) \in Opened

\* C7: a pooled row that lacks preprocessingTimeMs is left out of that metric's
\* mean only: for every epsilon emitted, the mean of preprocessingTimeMs is the
\* mean over the rows that carry the field (no zero stands in for the others),
\* and the mean of pushOperations is still taken over all the rows.
C7_MissingMetricExcluded ==
    CompareReturned =>
        \A k \in 1..Len(out.value.push) :
            LET e == out.value.push[k]
                all == PushPlaces(e.epsilon)
                have == {q \in all : "preprocessingTimeMs" \in DOMAIN PushAt(q)}
            IN  /\ e.pushOperations.den = Cardinality(all)
                /\ have # {} =>
                     /\ e.preprocessingTimeMs.den > 0
                     /\ FracEq(e.preprocessingTimeMs,
                               [num |-> SumFn([q \in have |-> PushAt(q).preprocessingTimeMs]),
                                den |-> Cardinality(have)])

PushEpsilons == {e \in Eps : PushPlaces(e) # {}}
SpeedupEpsilons == {e \in Eps : SpeedupPlaces(e) # {}}

\* C10: when the push rows and the speedup entries of the loaded files do not
\* cover the same epsilons, the composite holds exactly the common epsilons, in
\* both lists, and no emitted statistic is the mean of an empty sample (the
\* function has no other way to surface the mismatch: it returns or raises).
C10_MismatchHandled ==
    (CompareReturned /\ PushEpsilons # SpeedupEpsilons) =>
        /\ {out.value.push[k].epsilon : k \in 1..Len(out.value.push)}
              = PushEpsilons \cap SpeedupEpsilons
        /\ {out.value.speedup[k].epsilon : k \in 1..Len(out.value.speedup)}
              = PushEpsilons \cap SpeedupEpsilons
        /\ \A k \in 1..Len(out.value.speedup) :
              /\ out.value.speedup[k].speedupFactorTotal.den > 0
              /\ out.value.speedup[k].speedupFactorAlgorithmOnly.den > 0

\* C11: in the composite of load_multiple_compare_runs the push list and the
\* speedup list have the same length and the same epsilon at every position,
\* and the epsilons are strictly ascending.
C11_SharedEpsilonSequence ==
    CompareReturned =>
        /\ Len(out.value.push) = Len(out.value.speedup)
        /\ \A i \in 1..Len(out.value.push) :
              out.value.push[i].epsilon = out.value.speedup[i].epsilon
        /\ \A i \in 1..(Len(out.value.push) - 1) :
              out.value.push[i].epsilon < out.value.push[i + 1].epsilon

\* a composite of two epsilons from files whose speedup entries do not cover
\* the epsilons of the push rows, one file listing its push rows in descending
\* order of epsilon
C11_Witness ==
    /\ CompareReturned
    /\ Len(out.value.push) = 2
    /\ PushEpsilons # SpeedupEpsilons
    /\ \E p \in ObjFiles :
          /\ Len(fs.files[p].obj.push) = 2
          /\ fs.files[p].obj.push[1].epsilon > fs.files[p].obj.push[2].epsilon

DampingReturned == pc = "plot_damping_done" /\ out.status = "ok"

ThresholdsReturned == pc = "plot_communities_done" /\ out.status = "ok"

\* the places <<file, index>> of the rows of the files opened for the value x
\* of the parameter in the file names
ParamPlaces(x) ==
    UNION {{<<p, j>> : j \in 1..Len(DocRows(fs.files[p]))} :
            p \in {f \in Opened : f.param = x}}

\* the square of the population standard deviation of the values of a
\* function of places, recomputed from the rows themselves
PooledVar(values) ==
    LET n == Cardinality(DOMAIN values)
        s == SumFn(values)
    IN  [num |-> n * SumFn([x \in DOMAIN values |-> values[x] * values[x]]) - s * s,
         den |-> n * n]

\* std is the population standard deviation of the values
IsStd(std, values) == std.den > 0 /\ FracEq(std, PooledVar(values))

\* C12: every standard deviation reported is the population standard
\* deviation of the rows pooled for that parameter value, for the run files as
\* for a single file: in load_multiple_runs, load_multiple_compare_runs, the
\* averaging of plot_scalability, and the error bars of plot_damping and of
\* the thresholds of plot_communities.
C12_PopulationStd ==
    /\ RunsReturned =>
          \A k \in 1..Len(out.value) :
              LET e == out.value[k]
                  Q == TolPlaces(e.tolerance)
              IN  /\ IsStd(e.iterations_std, [q \in Q |-> TolAt(q).iterations])
                  /\ IsStd(e.executionTimeMs_std, [q \in Q |-> TolAt(q).executionTimeMs])
    /\ CompareReturned =>
          /\ \A k \in 1..Len(out.value.push) :
                LET e == out.value.push[k]
                    Q == PushPlaces(e.epsilon)
                IN  /\ IsStd(e.pushOperations_std, [q \in Q |-> PushAt(q).pushOperations])
                    /\ IsStd(e.executionTimeMs_std,
                             [q \in Q |-> PushAt(q).executionTimeMs])
                    /\ IsStd(e.comparison.l1Distance_std,
                             [q \in Q |-> PushAt(q).comparison.l1Distance])
          /\ \A k \in 1..Len(out.value.speedup) :
                LET e == out.value.speedup[k]
                    Q == SpeedupPlaces(e.epsilon)
                IN  (Q # {} /\ \A q \in Q : "speedupFactorTotal" \in DOMAIN SpeedupAt(q)) =>
                        IsStd(e.speedupFactorTotal_std,
                              [q \in Q |-> SpeedupAt(q).speedupFactorTotal])
    /\ ScalReturned =>
          \A exp \in {"pr_conv", "ppr_conv", "compare"} :
            \A key \in DOMAIN ScalAveraged(exp) :
              LET a == ScalAveraged(exp)[key]
              IN  \A i \in 1..Len(a.sizes) :
                    LET Q == {q \in ScalPlacesRead(exp, a.sizes[i]) :
                                FormatE0(ScalParamAt(exp, q)) = key}
                    IN  /\ IsStd(a.times_std[i],
                                 [q \in Q |-> ScalRowAt(exp, q).executionTimeMs])
                        /\ IF exp = "compare"
                           THEN IsStd(a.operations_std[i],
                                      [q \in Q |-> ScalRowAt(exp, q).pushOperations])
                           ELSE IsStd(a.iterations_std[i],
                                      [q \in Q |-> ScalRowAt(exp, q).iterations])
    /\ DampingReturned =>
          \A k \in 1..Len(out.points) :
              LET Q == ParamPlaces(out.points[k].damping)
              IN  Q # {} =>
                    IsStd(out.points[k].std,
                          [q \in Q |-> fs.files[q[1]].rows[q[2]].iterations])
    /\ ThresholdsReturned =>
          \A k \in 1..Len(out.points) :
              LET F == {f \in Opened : f.param = out.points[k].threshold}
              IN  IsStd(out.points[k].std, [f \in F |-> fs.files[f].obj.communitySize])

\* a standard deviation that is defined and is 0
IsZero(std) == std.den > 0 /\ std.num = 0

\* C13: the standard deviation of every metric of a bucket that pools exactly
\* one row is 0, and is defined: in load_multiple_runs, in the push and speedup
\* lists of load_multiple_compare_runs and in the averaging of plot_scalability.
C13_SingleRowStdZero ==
    /\ RunsReturned =>
          \A k \in 1..Len(out.value) :
              Cardinality(TolPlaces(out.value[k].tolerance)) = 1 =>
                  /\ IsZero(out.value[k].iterations_std)
                  /\ IsZero(out.value[k].executionTimeMs_std)
    /\ CompareReturned =>
          /\ \A k \in 1..Len(out.value.push) :
                Cardinality(PushPlaces(out.value.push[k].epsilon)) = 1 =>
                    /\ IsZero(out.value.push[k].pushOperations_std)
                    /\ IsZero(out.value.push[k].executionTimeMs_std)
                    /\ IsZero(out.value.push[k].comparison.l1Distance_std)
                    /\ IsZero(out.value.push[k].comparison.l2Distance_std)
                    /\ IsZero(out.value.push[k].comparison.correlation_std)
          /\ \A k \in 1..Len(out.value.speedup) :
                Cardinality(SpeedupPlaces(out.value.speedup[k].epsilon)) = 1 =>
                    /\ IsZero(out.value.speedup[k].speedupFactorTotal_std)
                    /\ IsZero(out.value.speedup[k].speedupFactorAlgorithmOnly_std)
    /\ ScalReturned =>
          \A exp \in {"pr_conv", "ppr_conv", "compare"} :
            \A key \in DOMAIN ScalAveraged(exp) :
              LET a == ScalAveraged(exp)[key]
              IN  \A i \in 1..Len(a.sizes) :
                    Cardinality({q \in ScalPlacesRead(exp, a.sizes[i]) :
                                    FormatE0(ScalParamAt(exp, q)) = key}) = 1 =>
                        /\ IsZero(a.times_std[i])
                        /\ IF exp = "compare"
                           THEN /\ IsZero(a.operations_std[i])
                                /\ IsZero(a.speedups_std[i])
                                /\ IsZero(a.l1s_std[i])
                           ELSE IsZero(a.iterations_std[i])

\* load_multiple_runs returned a bucket of one row next to a bucket of two
\* rows whose standard deviation is not 0
C13_Witness ==
    /\ RunsReturned
    /\ \E k \in 1..Len(out.value) :
          /\ Cardinality(TolPlaces(out.value[k].tolerance)) = 1
          /\ IsZero(out.value[k].iterations_std)
    /\ \E k \in 1..Len(out.value) :
          /\ Cardinality(TolPlaces(out.value[k].tolerance)) = 2
          /\ out.value[k].iterations_std.num > 0

\* a sequence of numbers is strictly ascending
Ascending(xs) == \A i \in 1..(Len(xs) - 1) : xs[i] < xs[i + 1]

\* the tolerances of the rows of the list files of the tree
RowTolerances ==
    UNION {{fs.files[p].rows[j].tolerance : j \in 1..Len(fs.files[p].rows)} :
            p \in ListFiles}

\* C14: the buckets a reducer emits are in strictly ascending order of the
\* parameter value and there is exactly one bucket for each distinct value of
\* the rows, in whatever order the files hold them: the tolerances of
\* load_multiple_runs, the epsilons of load_multiple_compare_runs, and for
\* each curve of plot_scalability the graph sizes.
C14_BucketsAscending ==
    /\ RunsReturned =>
          LET tols == [k \in 1..Len(out.value) |-> out.value[k].tolerance]
          IN  Ascending(tols) /\ Range(tols) = RowTolerances
    /\ CompareReturned =>
          LET eps == [k \in 1..Len(out.value.push) |-> out.value.push[k].epsilon]
          IN  Ascending(eps) /\ Range(eps) = PushEpsilons
    /\ ScalReturned =>
          \A exp \in {"pr_conv", "ppr_conv", "compare"} :
            \A key \in DOMAIN ScalAveraged(exp) :
              LET a == ScalAveraged(exp)[key]
              IN  /\ Ascending(a.sizes)
                  /\ Range(a.sizes)
                        = {n \in Range(out.sizes) :
                             \E q \in ScalPlacesRead(exp, n) :
                                 FormatE0(ScalParamAt(exp, q)) = key}

\* load_multiple_runs returned two buckets from a file that lists the larger
\* tolerance first
C14_Witness ==
    /\ RunsReturned
    /\ Len(out.value) = 2
    /\ \E p \in ListFiles :
          /\ Len(fs.files[p].rows) = 2
          /\ fs.files[p].rows[1].tolerance > fs.files[p].rows[2].tolerance

\* the lists of single files tried in order, with the unit that tries them
FallbackLists ==
    {[unit |-> "plot_convergence", cands |-> ConvKeys[i].fallback] : i \in 1..Len(ConvKeys)}
    \cup {[unit |-> u, cands |-> CompareFiles] :
            u \in {"plot_push_vs_ppr", "plot_push_operations"}}

\* C15: when a unit goes through a list of single files, the first file of
\* the list that exists is the one it opens, and no file listed after a file
\* that exists is opened, whatever that file contains.
C15_FirstExistingWins ==
    \A l \in FallbackLists :
        Returned(l.unit) =>
            \A i \in 1..Len(l.cands) :
                (Exists(fs, l.cands[i]) /\ \A h \in 1..(i - 1) : ~Exists(fs, l.cands[h])) =>
                    /\ \A j \in (i + 1)..Len(l.cands) : l.cands[j] \notin Opened
                    /\ (\E j \in 1..Len(l.cands) : l.cands[j] \in Opened) =>
                          l.cands[i] \in Opened

\* the places <<file, index>> of the rows of the list files
RowPlaces ==
    UNION {{<<p, j>> : j \in 1..Len(fs.files[p].rows)} : p \in ListFiles}

\* the places of the push rows of the object files that have a push list
PushRowPlaces ==
    UNION {{<<p, j>> : j \in 1..Len(fs.files[p].obj.push)} :
            p \in {f \in ObjFiles : "push" \in DOMAIN fs.files[f].obj}}

\* a push row with every field load_multiple_compare_runs reads with [...]
CompletePushRow(r) ==
    /\ PushRequired \subseteq DOMAIN r
    /\ ComparisonRequired \subseteq DOMAIN r.comparison

\* every file is a comparison document whose only possible defect is in the
\* rows of its push list
OnlyPushRowsDefective ==
    \A p \in DOMAIN fs.files :
        /\ fs.files[p].kind = "object"
        /\ {"ppr", "push", "speedup"} \subseteq DOMAIN fs.files[p].obj
        /\ PprRequired \subseteq DOMAIN fs.files[p].obj.ppr
        /\ \A i \in 1..Len(fs.files[p].obj.speedup) :
              "epsilon" \in DOMAIN fs.files[p].obj.speedup[i]
        /\ \A i \in 1..Len(fs.files[p].obj.push) :
              "epsilon" \in DOMAIN fs.files[p].obj.push[i]

\* C16: a row that lacks a field the reduction reads is left out of that
\* field's mean and the other rows are still reduced; the reducer raises only
\* when no row of the files satisfies the schema.  (The files are all valid
\* JSON of the expected shape, and every row has its parameter.)
C16_OffendingRowExcluded ==
    /\ (/\ pc = "load_multiple_runs_done"
        /\ DOMAIN fs.files = ListFiles
        /\ \A q \in RowPlaces : "tolerance" \in DOMAIN TolAt(q)
        /\ \E q \in RowPlaces : RowFields \subseteq DOMAIN TolAt(q)) =>
          /\ out.status = "ok"
          /\ ~out.none
          /\ \A field \in {"iterations", "executionTimeMs"} : \A t \in RowTolerances :
                LET Q == {q \in TolPlaces(t) : field \in DOMAIN TolAt(q)}
                IN  Q # {} =>
                      \E k \in 1..Len(out.value) :
                          /\ out.value[k].tolerance = t
                          /\ FracEq(out.value[k][field],
                                    Pooled([q \in Q |-> TolAt(q)[field]]))
    /\ (/\ pc = "load_multiple_compare_runs_done"
        /\ OnlyPushRowsDefective
        /\ \E q \in PushRowPlaces : CompletePushRow(PushAt(q))) =>
          /\ out.status = "ok"
          /\ ~out.none
          /\ \A e \in PushEpsilons :
                LET Q == {q \in PushPlaces(e) : "pushOperations" \in DOMAIN PushAt(q)}
                IN  Q # {} =>
                      \E k \in 1..Len(out.value.push) :
                          /\ out.value.push[k].epsilon = e
                          /\ FracEq(out.value.push[k].pushOperations,
                                    Pooled([q \in Q |-> PushAt(q).pushOperations]))

BadFiles == {p \in DOMAIN fs.files : fs.files[p].kind = "bad"}

\* the files plot_scalability resolves for the sizes it loops over
ScalResolved ==
    UNION {Range(ScalFiles(fs, n, exp)) :
            n \in Range(ScalSizesOf(fs)), exp \in {"pr_conv", "ppr_conv", "compare"}}

\* C17: a file that is not valid JSON makes the function that loads it raise:
\* whenever such a file was opened the function raised, and it opened nothing
\* after it; and a reducer raises whenever one of the files it resolves is
\* such a file, so that it never returns an aggregate of the other files.
C17_CorruptFilePropagates ==
    /\ "opened" \in DOMAIN out =>
          \A i \in 1..Len(out.opened) :
              out.opened[i] \in BadFiles => out.status = "raise" /\ i = Len(out.opened)
    /\ pc \in {"load_multiple_runs_done", "load_multiple_compare_runs_done"} =>
          (BadFiles # {} => out.status = "raise" /\ out.none)
    /\ pc = "plot_scalability_done" =>
          (BadFiles \cap ScalResolved # {} => out.status = "raise" /\ ~out.saved)

\* load_multiple_runs raised on its second run file, which is not valid JSON,
\* after loading a first run file that holds rows
C17_Witness ==
    /\ pc = "load_multiple_runs_done"
    /\ out.status = "raise"
    /\ Len(out.opened) = 2
    /\ out.opened[2] \in BadFiles
    /\ fs.files[out.opened[1]].kind = "list"
    /\ fs.files[out.opened[1]].rows # <<>>


\* C18: the number of values behind every statistic of a non-empty group is
\* the number of rows with that parameter value in the files loaded, not the
\* number of files: a file with k rows of the value gives k samples.  (The
\* number of values of a mean is the length of the list handed to np.mean.)
C18_SampleCountIsRows ==
    /\ RunsReturned =>
          \A k \in 1..Len(out.value) :
              LET n == Cardinality(TolPlaces(out.value[k].tolerance))
              IN  /\ n > 0
                  /\ out.value[k].iterations.den = n
                  /\ out.value[k].executionTimeMs.den = n
                  /\ out.value[k].iterations_std.den = n * n
                  /\ out.value[k].executionTimeMs_std.den = n * n
    /\ CompareReturned =>
          /\ \A k \in 1..Len(out.value.push) :
                LET e == out.value.push[k]
                    n == Cardinality(PushPlaces(e.epsilon))
                IN  /\ n > 0
                    /\ \A field \in {"pushOperations", "nodesProcessed", "executionTimeMs",
                                      "preprocessingTimeMs", "algorithmTimeMs",
                                      "communitySize"} : e[field].den = n
                    /\ \A field \in ComparisonRequired : e.comparison[field].den = n
          /\ \A k \in 1..Len(out.value.speedup) :
                LET e == out.value.speedup[k]
                    n == Cardinality(SpeedupPlaces(e.epsilon))
                IN  n > 0 =>
                      /\ e.speedupFactorTotal.den = n
                      /\ e.speedupFactorAlgorithmOnly.den = n
          /\ \A field \in DOMAIN out.value.ppr :
                out.value.ppr[field].den = Cardinality(ObjFiles)
    /\ ScalReturned =>
          \A exp \in {"pr_conv", "ppr_conv", "compare"} :
            \A key \in DOMAIN ScalAveraged(exp) :
              LET a == ScalAveraged(exp)[key]
              IN  \A i \in 1..Len(a.sizes) :
                    LET n == Cardinality({q \in ScalPlacesRead(exp, a.sizes[i]) :
                                            FormatE0(ScalParamAt(exp, q)) = key})
                    IN  /\ n > 0
                        /\ a.times[i].den = n
                        /\ IF exp = "compare"
                           THEN /\ a.operations[i].den = n
                                /\ a.speedups[i].den = n
                                /\ a.l1s[i].den = n
                           ELSE a.iterations[i].den = n

\* load_multiple_runs read a single file with two rows of the same tolerance
\* and pooled two values
C18_Witness ==
    /\ RunsReturned
    /\ Len(out.opened) = 1
    /\ Len(out.value) = 1
    /\ out.value[1].iterations.den = 2

\* C19: the push list of a comparison document is flattened: the result has
\* one group per distinct epsilon of the rows, each group made of exactly the
\* rows with that epsilon, and the ppr object of each document is one value of
\* the baseline.
C19_PushListFlattened ==
    CompareReturned =>
        /\ Len(out.value.push) = Cardinality(PushEpsilons)
        /\ {out.value.push[k].epsilon : k \in 1..Len(out.value.push)} = PushEpsilons
        /\ \A k \in 1..Len(out.value.push) :
              LET e == out.value.push[k]
                  Q == PushPlaces(e.epsilon)
              IN  /\ e.pushOperations = Pooled([q \in Q |-> PushAt(q).pushOperations])
                  /\ e.nodesProcessed = Pooled([q \in Q |-> PushAt(q).nodesProcessed])
                  /\ e.communitySize = Pooled([q \in Q |-> PushAt(q).communitySize])
        /\ \A field \in PprRequired :
              out.value.ppr[field] = Pooled([p \in ObjFiles |-> PprFieldAt(p, field)])

\* a single document with push rows of epsilon 0.01 and 0.001 gave two groups
\* of one row each, and one value for the baseline
C19_Witness ==
    /\ CompareReturned
    /\ Cardinality(DOMAIN fs.files) = 1
    /\ \E p \in ObjFiles :
          /\ Len(fs.files[p].obj.push) = 2
          /\ fs.files[p].obj.push[1].epsilon = 10000000
          /\ fs.files[p].obj.push[1].pushOperations = 5
          /\ fs.files[p].obj.push[2].epsilon = 1000000
          /\ fs.files[p].obj.push[2].pushOperations = 50
    /\ Len(out.value.push) = 2
    /\ out.value.push[1].epsilon = 1000000
    /\ out.value.push[1].pushOperations = [num |-> 50, den |-> 1]
    /\ out.value.push[2].epsilon = 10000000
    /\ out.value.push[2].pushOperations = [num |-> 5, den |-> 1]
    /\ out.value.ppr.iterations.den = 1

\* the directory and the stem of the run pattern of each experiment family
\* that reads run files first and a single file otherwise
CanonicalStems ==
    {<<PrDir, "pr_convergence">>, <<PprDir, "ppr_convergence_seed0">>,
     <<PprDir, "ppr_convergence_multi">>, <<DampingDir, "pr_damping">>,
     <<ThresholdDir, "community_threshold">>}

\* the single files of the tree that lie in the directory of their run
\* pattern and have no run file beside them
CanonicalSingles ==
    {p \in DOMAIN fs.files :
        /\ p.run = 0
        /\ <<p.dir, p.stem>> \in CanonicalStems
        /\ ~\E q \in DOMAIN fs.files : q.run > 0 /\ [q EXCEPT !.run = 0] = p}

\* C20: when a key has no run file, its single file is read from the directory
\* in which the run pattern was searched: a plot function that returned has
\* opened every such single file of its families, those of the PageRank and
\* PPR convergence included.
C20_SingleFileInCanonicalDir ==
    /\ pc = "plot_convergence_done" /\ out.status = "ok" =>
          \A p \in CanonicalSingles : p.dir \in {PrDir, PprDir} => p \in Opened
    /\ pc = "plot_damping_done" /\ out.status = "ok" =>
          \A p \in CanonicalSingles : p.dir = DampingDir => p \in Opened
    /\ pc = "plot_communities_done" /\ out.status = "ok" =>
          \A p \in CanonicalSingles : p.dir = ThresholdDir => p \in Opened

\* the comparison documents plot_scalability opened that have a push list
ScalCompareOpened ==
    {p \in Opened : /\ p.stem = "compare"
                    /\ fs.files[p].kind = "object"
                    /\ "push" \in DOMAIN fs.files[p].obj}

\* the indexes of the push rows of a document whose epsilon is a key of
\* push_data
KeyRows(doc) ==
    {i \in 1..Len(doc.obj.push) :
        /\ "epsilon" \in DOMAIN doc.obj.push[i]
        /\ FormatE0(doc.obj.push[i].epsilon) \in Range(EpsKeys)}

\* the speedup list of a document has an entry at index i
HasSpeedupAt(doc, i) == "speedup" \in DOMAIN doc.obj /\ i <= Len(doc.obj.speedup)

\* the value read from the speedup entry at the place of a push row
SpeedupByIndex(q) ==
    LET sp == fs.files[q[1]].obj.speedup[q[2]]
    IN  Get(sp, "speedupFactorTotal", Get(sp, "speedupFactor", 1))

SizeDirs == {d.sub : d \in {x \in fs.dirs : x.dir = ScalabilityDir /\ x.sub >= 0}}

\* the N of the flat files graph_<N>_run*.json and graph_<N>.json of the tree
FlatSizes ==
    {f.param : f \in {x \in DOMAIN fs.files :
        x.dir = ScalabilityDir /\ x.sub < 0 /\ x.stem = "graph" /\ x.param >= 0}}

\* the size a file of the scalability directory belongs to
SizeOfFile(p) == IF p.sub >= 0 THEN p.sub ELSE p.param

\* C22: plot_scalability takes its sizes from the flat files graph_<N>... only
\* when there is no size_<N> directory: with one such directory the sizes are
\* those of the directories, no file of another size is read and no other size
\* is in an aggregate; the list of sizes is strictly ascending.
C22_SizesFromDirsFirst ==
    pc = "plot_scalability_done" =>
        /\ Range(out.sizes) = (IF SizeDirs # {} THEN SizeDirs ELSE FlatSizes)
        /\ \A i \in 1..(Len(out.sizes) - 1) : out.sizes[i] < out.sizes[i + 1]
        /\ \A p \in Opened : SizeOfFile(p) \in Range(out.sizes)
        /\ out.status = "ok" =>
              \A exp \in {"pr_conv", "ppr_conv", "compare"} :
                \A key \in DOMAIN ScalAveraged(exp) :
                    Range(ScalAveraged(exp)[key].sizes) \subseteq Range(out.sizes)

\* size_100 exists and size 200 has only flat files, data included: the
\* function returned with size 100 alone and read nothing of size 200
C22_Witness ==
    /\ ScalReturned
    /\ SizeDirs = {100}
    /\ 200 \in FlatSizes
    /\ \E p \in DOMAIN fs.files : p.stem # "graph" /\ p.sub < 0 /\ p.param = 200
    /\ out.sizes = <<100>>
    /\ Opened # {}

\* the keys of the data of an experiment of plot_scalability
ScalKeys(exp) == IF exp = "compare" THEN Range(EpsKeys) ELSE Range(TolKeys)

\* the rows plot_scalability read for an experiment, over all sizes
ScalRowsRead(exp) == UNION {ScalPlacesRead(exp, n) : n \in Range(out.sizes)}

\* C23: the keys of the aggregates of plot_scalability are among the fixed
\* keys; a key is in an aggregate exactly when a row read formats to it; a row
\* that formats to anything else is in no aggregate (the values behind a key
\* and a size are as many as the rows read for the size that format to the
\* key) and raises nothing, whatever it lacks.
C23_FixedKeysOnly ==
    /\ ScalReturned =>
          \A exp \in {"pr_conv", "ppr_conv", "compare"} :
            LET a == ScalAveraged(exp)
            IN  /\ DOMAIN a \subseteq ScalKeys(exp)
                /\ DOMAIN a = {FormatE0(ScalParamAt(exp, q)) : q \in ScalRowsRead(exp)}
                                  \cap ScalKeys(exp)
                /\ \A key \in DOMAIN a : \A i \in 1..Len(a[key].sizes) :
                      a[key].times[i].den
                          = Cardinality({q \in ScalPlacesRead(exp, a[key].sizes[i]) :
                                            FormatE0(ScalParamAt(exp, q)) = key})
    /\ pc = "plot_scalability_done" /\ out.status = "raise" /\ Dir(PlotsDir) \in fs.dirs =>
          \E p \in Opened :
              \/ fs.files[p].kind = "bad"
              \/ /\ p.stem = "compare"
                 /\ ScalCompareRaises(fs.files[p])
              \/ /\ p.stem # "compare"
                 /\ \E j \in 1..Len(ResultsArray(fs.files[p])) :
                       LET r == ResultsArray(fs.files[p])[j]
                       IN  \/ "tolerance" \notin DOMAIN r
                           \/ /\ FormatE0(r.tolerance) \in Range(TolKeys)
                              /\ ~({"iterations", "executionTimeMs"} \subseteq DOMAIN r)

\* a file with a row of tolerance 1e-2 that has neither iterations nor a time
\* and a row of tolerance 1e-3 was read: the call returned and the aggregate
\* has the key 1e-03 alone, with one value
C23_Witness ==
    /\ ScalReturned
    /\ \E p \in Opened :
          /\ p.stem = "pr_conv"
          /\ fs.files[p].kind = "list"
          /\ Len(fs.files[p].rows) = 2
          /\ fs.files[p].rows[1] = [tolerance |-> 10000000]
          /\ fs.files[p].rows[2].tolerance = 1000000
    /\ Cardinality(Opened) = 1
    /\ DOMAIN out.pr_averaged = {1000000}
    /\ out.pr_averaged[1000000].times[1].den = 1
    /\ DOMAIN out.ppr_averaged = {}

\* the run files compare_seed0_run*.json of the push directory, and the
\* single files in the order stated
PushRunFiles ==
    {p \in DOMAIN fs.files : p.dir = PushDir /\ p.stem = "compare_seed0" /\ p.run > 0}

StatedOrder ==
    <<Path(PushDir, "compare_seed0", 0), Path(Root, "push_vs_ppr_seed0", 0),
      Path(Root, "test_compare", 0)>>

\* what a function opened is what the stated order resolves to: run files
\* alone when there is one, else the first single file that exists alone
OpenedAsStated(r) ==
    IF PushRunFiles # {}
    THEN r.opened # <<>> /\ Range(r.opened) \subseteq PushRunFiles
    ELSE LET have == {i \in 1..Len(StatedOrder) : StatedOrder[i] \in DOMAIN fs.files}
         IN  IF have = {} THEN r.opened = <<>>
             ELSE r.opened = <<StatedOrder[CHOOSE i \in have : \A j \in have : i <= j]>>

\* C24: on any results directory plot_push_vs_ppr and plot_push_operations
\* open the same files, in the stated order of sources, and plot the same
\* document.
C24_SameComparisonSource ==
    pc = "plot_push_done" =>
        /\ out.vs_ppr.opened = out.operations.opened
        /\ out.vs_ppr.averaged = out.operations.averaged
        /\ out.vs_ppr.data = out.operations.data
        /\ OpenedAsStated(out.vs_ppr)
        /\ OpenedAsStated(out.operations)

\* no run file and no file in the push directory, both old locations hold a
\* file: both functions plotted the document of push_vs_ppr_seed0.json
C24_Witness ==
    /\ pc = "plot_push_done"
    /\ DOMAIN fs.files = {Path(Root, "push_vs_ppr_seed0", 0), Path(Root, "test_compare", 0)}
    /\ out.vs_ppr.saved /\ out.operations.saved
    /\ out.vs_ppr.opened = <<Path(Root, "push_vs_ppr_seed0", 0)>>
    /\ out.operations.data = PushDocAt(2)
    /\ out.vs_ppr.data = PushDocAt(2)

\* the value of a speedup entry for speedupFactorTotal: its speedupFactorTotal,
\* else its speedupFactor, else 1
TotalOf(sp) ==
    IF "speedupFactorTotal" \in DOMAIN sp THEN sp.speedupFactorTotal
    ELSE IF "speedupFactor" \in DOMAIN sp THEN sp.speedupFactor
    ELSE 1

\* the value of a speedup entry for speedupFactorAlgorithmOnly: its
\* speedupFactorAlgorithmOnly, else its speedupFactorTotal, else 1
AlgorithmOnlyOf(sp) ==
    IF "speedupFactorAlgorithmOnly" \in DOMAIN sp THEN sp.speedupFactorAlgorithmOnly
    ELSE IF "speedupFactorTotal" \in DOMAIN sp THEN sp.speedupFactorTotal
    ELSE 1

\* C25: in load_multiple_compare_runs every speedup entry gives one value to
\* each of the two metrics of its epsilon, by the two chains above: each mean
\* emitted for an epsilon is the mean of the chain's values over all the
\* speedup entries of that epsilon, and the two samples have the same size.
C25_SpeedupFallbackChain ==
    CompareReturned =>
        \A k \in 1..Len(out.value.speedup) :
            LET e == out.value.speedup[k]
                Q == SpeedupPlaces(e.epsilon)
            IN  /\ e.speedupFactorTotal = Pooled([q \in Q |-> TotalOf(SpeedupAt(q))])
                /\ e.speedupFactorAlgorithmOnly
                      = Pooled([q \in Q |-> AlgorithmOnlyOf(SpeedupAt(q))])
                /\ e.speedupFactorTotal.den = e.speedupFactorAlgorithmOnly.den

\* an entry of the old schema, with speedupFactor alone, beside an entry with
\* speedupFactorTotal alone: the total has the values 2 and 3, the algorithm
\* factor 1 and 3
C25_Witness ==
    /\ CompareReturned
    /\ Cardinality(DOMAIN fs.files) = 1
    /\ \E p \in ObjFiles :
          fs.files[p].obj.speedup
              = <<[epsilon |-> 1000000, speedupFactor |-> 2],
                  [epsilon |-> 1000000, speedupFactorTotal |-> 3]>>
    /\ Len(out.value.speedup) = 1
    /\ out.value.speedup[1].speedupFactorTotal = [num |-> 5, den |-> 2]
    /\ out.value.speedup[1].speedupFactorAlgorithmOnly = [num |-> 4, den |-> 2]

=============================================================================
